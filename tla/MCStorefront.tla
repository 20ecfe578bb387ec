---------------------------- MODULE MCStorefront ----------------------------
EXTENDS Storefront

MCProducts == {1}
MCPrices == {2, 3}
MCSavings == {1, 2}
MCSlots == 1..2

\* The coupon begins at its full value, so that an edit of it raises a total.
MCInit == StorefrontInit /\ promo.value = 2
MCSpec == MCInit /\ [][StorefrontNext]_storeVars /\ Fairness
=============================================================================
