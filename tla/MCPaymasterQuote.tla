-------------------------- MODULE MCPaymasterQuote --------------------------
(***************************************************************************)
(* Gas in thousands.  The amounts lie on both sides of the fallback floor, *)
(* of the simulation ceiling and of what fits a uint32.                    *)
(***************************************************************************)
EXTENDS PaymasterQuote

MCGasAmounts == {0, 20, 150, 12000, 25000, 4294968}
=============================================================================
