-------------------------- MODULE MCMemoryPlugin --------------------------
EXTENDS MemoryPlugin, TLC

CONSTANTS s1, s2, c1, c2

\* One session proposes both candidates, the first at odds with a memory.
Owners == (c1 :> s1) @@ (c2 :> s1)
=============================================================================
