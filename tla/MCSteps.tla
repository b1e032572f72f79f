-------------------------------- MODULE MCSteps --------------------------------
EXTENDS Steps

\* A character, alone and with a control-C behind it, which is 3.
Char == 7
MCBursts == {<<Char>>, <<Char, 3>>}

=============================================================================
