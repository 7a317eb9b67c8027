---------------------------- MODULE MCFreeGifts -----------------------------
EXTENDS FreeGifts, TLC

CONSTANTS g1, g2, g3, scarf, ann, bob, kim, lee, phone

\* Two gifts of one sender to different people, and one of another sender
\* to somebody with the first recipient's phone.
MCSendKeys == g1 :> {ann} @@ g2 :> {ann} @@ g3 :> {bob}
MCReceiveKeys == g1 :> {kim, phone} @@ g2 :> {lee} @@ g3 :> {phone}
MCItem == [g \in Gifts |-> scarf]
MCCost == [S \in SUBSET Gifts |-> Cardinality(S) + (IF g2 \in S THEN 1 ELSE 0)]
MCBudgets == {[cap |-> 3, currency |-> "AUD"], [cap |-> 1, currency |-> "USD"]}
MCForms == {<<2, 0>>}
MCCurrencyOf == [g \in Gifts |-> "AUD"]
=============================================================================
