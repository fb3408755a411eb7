--------------------------- MODULE MCIntroKeys ---------------------------
\* Small instances of IntroKeys.
EXTENDS IntroKeys

=============================================================================
