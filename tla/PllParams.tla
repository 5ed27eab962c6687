------------------------------ MODULE PllParams ------------------------------
(***************************************************************************)
(* rp2_pll_params::compute (include/tart/drivers/clk/rp2-pll.hpp): the     *)
(* search for the feedback divider and the two post dividers of a PLL that *)
(* come closest to a frequency.  One step per turn of a loop.              *)
(***************************************************************************)
EXTENDS Integers

CONSTANTS
    Inputs, Targets,     \* arguments: input_clk and target_clk
    VcoMin, VcoMax,      \* range of the oscillator's frequency
    FbdivMin, FbdivMax,  \* range of the feedback divider
    PostdivMax           \* the post dividers are in 1 .. PostdivMax

ASSUME PllAssumption ==
    /\ Inputs \subseteq Nat \ {0} /\ Targets \subseteq Nat \ {0}
    /\ VcoMin \in Nat /\ VcoMax \in Nat
    /\ FbdivMin \in Nat \ {0} /\ FbdivMax \in Nat /\ FbdivMin <= FbdivMax
    /\ PostdivMax \in Nat \ {0}

VARIABLES
    input_clk, target_clk, low_vco,     \* the arguments
    pc,                                 \* "outer", "inner" or "done"
    fbdiv, pd2, pd1,                    \* the loops
    best, best_margin

arguments == <<input_clk, target_clk, low_vco>>
search == <<arguments, pc, fbdiv, pd2, pd1, best, best_margin>>

Fbdivs == FbdivMin .. FbdivMax
Postdivs == 1 .. PostdivMax
NoSetting == [actual_clk |-> 0, fbdiv |-> 0, postdiv1 |-> 0, postdiv2 |-> 0]

Vco(f) == input_clk * f
InRange(f) == VcoMin <= Vco(f) /\ Vco(f) <= VcoMax
Out(f, p1, p2) == (Vco(f) \div p1) \div p2
Distance(f) == IF f < target_clk THEN target_clk - f ELSE f - target_clk
Margin(f, p1, p2) == Distance(Out(f, p1, p2))

SearchTypeOK ==
    /\ input_clk \in Inputs /\ target_clk \in Targets /\ low_vco \in BOOLEAN
    /\ pc \in {"outer", "inner", "done"}
    /\ fbdiv \in FbdivMin - 1 .. FbdivMax + 1
    /\ pc # "outer" \/ fbdiv \in Fbdivs
    /\ pc = "inner" => fbdiv \in Fbdivs /\ InRange(fbdiv)
    /\ pc = "done" => fbdiv = IF low_vco THEN FbdivMax + 1 ELSE FbdivMin - 1
    /\ pd1 \in Postdivs /\ pd2 \in Postdivs
    /\ best \in [actual_clk : Nat, fbdiv : Nat, postdiv1 : Nat, postdiv2 : Nat]
    /\ best_margin \in Nat

SearchInit ==
    /\ input_clk \in Inputs /\ target_clk \in Targets /\ low_vco \in BOOLEAN
    /\ pc = "outer" /\ pd1 = 1 /\ pd2 = 1
    /\ fbdiv = IF low_vco THEN FbdivMin ELSE FbdivMax
    /\ best = NoSetting /\ best_margin = target_clk

\* The next turn of the outer loop, if there is one.
NextFbdiv ==
    /\ fbdiv' = IF low_vco THEN fbdiv + 1 ELSE fbdiv - 1
    /\ pc' = IF fbdiv' \in Fbdivs THEN "outer" ELSE "done"

Continue ==
    /\ pc = "outer" /\ ~InRange(fbdiv)
    /\ NextFbdiv /\ UNCHANGED <<arguments, pd1, pd2, best, best_margin>>

Enter ==
    /\ pc = "outer" /\ InRange(fbdiv)
    /\ pc' = "inner" /\ pd1' = 1 /\ pd2' = 1
    /\ UNCHANGED <<arguments, fbdiv, best, best_margin>>

MutantAbove(m) == m < best_margin /\ Out(fbdiv, pd1, pd2) >= target_clk
Better(m) == m < best_margin

Try ==
    IF Better(Margin(fbdiv, pd1, pd2))
    THEN /\ best' = [actual_clk |-> Out(fbdiv, pd1, pd2), fbdiv |-> fbdiv,
                     postdiv1 |-> pd1, postdiv2 |-> pd2]
         /\ best_margin' = Margin(fbdiv, pd1, pd2)
    ELSE UNCHANGED <<best, best_margin>>

MorePd1 == pd1 < PostdivMax

\* One turn of the inner loop, and what the loops around it do after it.
Turn ==
    /\ pc = "inner" /\ Try /\ UNCHANGED arguments
    /\ \/ /\ MorePd1
          /\ pd1' = pd1 + 1 /\ UNCHANGED <<pc, fbdiv, pd2>>
       \/ /\ ~MorePd1 /\ pd2 < PostdivMax
          /\ pd1' = 1 /\ pd2' = pd2 + 1 /\ UNCHANGED <<pc, fbdiv>>
       \/ /\ ~MorePd1 /\ pd2 = PostdivMax
          /\ NextFbdiv /\ UNCHANGED <<pd1, pd2>>

SearchNext == Continue \/ Enter \/ Turn

SearchSpec == SearchInit /\ [][SearchNext]_search

-----------------------------------------------------------------------------
\* The candidates the loops have been through.
FbdivDone(f) == IF low_vco THEN f < fbdiv ELSE f > fbdiv
Visited(f, p1, p2) ==
    \/ FbdivDone(f)
    \/ pc = "inner" /\ f = fbdiv /\ (p2 < pd2 \/ (p2 = pd2 /\ p1 < pd1))

\* The loop invariant: nothing the loops have been through is closer.
BestOfVisited ==
    \A f \in Fbdivs, p1 \in Postdivs, p2 \in Postdivs :
        InRange(f) /\ Visited(f, p1, p2) => best_margin <= Margin(f, p1, p2)

\* compute returns the closest frequency the PLL can make, from any input, for
\* any target, in either direction of the search (rp2-pll.hpp:29-61).
Closest ==
    pc = "done" =>
        \A f \in Fbdivs, p1 \in Postdivs, p2 \in Postdivs :
            InRange(f) => best_margin <= Margin(f, p1, p2)
=============================================================================
