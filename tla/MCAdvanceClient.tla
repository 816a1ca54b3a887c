--------------------------- MODULE MCAdvanceClient ---------------------------
\* Two accounts, of which one may close the market; two quotes to
\* sell and one to buy back.
EXTENDS AdvanceClient

CONSTANTS alice, bob

MCWallets == {alice, bob}
MCIds == {<<"sell", 1>>, <<"sell", 2>>, <<"buyback", 1>>}
=============================================================================
