--------------------------- MODULE MCDemoLending ---------------------------
\* One browser tab over a small pool: 100 units (of
\* 100 USDC) of weekly revenues, an advance of up to two weeks of them.
EXTENDS DemoLending

MCSeed == 2500
MCLent == 2430
MCLentRate == 900
MCFees == 100
MCEarnings == {60, 100}
MCSlices == {50, 100}
MCAmounts == {50}
=============================================================================
