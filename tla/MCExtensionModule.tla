-------------------------- MODULE MCExtensionModule --------------------------
\* Sessions that sample everything (0), some (1) and, as an int, nothing (7),
\* with as many frames as there may be, fewer and too many.
EXTENDS ExtensionModule

EnvNumbers == {1, 8, -1}
AllEnvRates == EnvNumbers \cup {Unset, Garbage}
AllEnvFrames == {1, 3, Unset, Garbage}
=============================================================================
