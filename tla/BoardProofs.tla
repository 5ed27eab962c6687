----------------------------- MODULE BoardProofs -----------------------------
(***************************************************************************)
(* Theorems about the board with the RP2040.                               *)
(*                                                                         *)
(* rp2_pll_params::compute returns a setting of a PLL that is closest to   *)
(* the target, for every input, target and range of the dividers: of       *)
(* PllParams alone, and of the board, which calls it once for each PLL.    *)
(*                                                                         *)
(* The processor never loses its clock, in every program that frees the    *)
(* PLLs before it touches them, hw_initialize among them.                  *)
(*                                                                         *)
(* What start() has been called for runs, in every program that keeps the  *)
(* source of a clock up for as long as the clock is.                       *)
(*                                                                         *)
(* And what is logged comes out of the line, in order, in every program    *)
(* that sets up what it logs through before it says so, hw_initialize      *)
(* among them.                                                             *)
(***************************************************************************)
EXTENDS Board, Lemmas

\* A quotient of natural numbers is one.
LEMMA DivNat ==
    ASSUME NEW a \in Nat, NEW b \in Nat, b # 0
    PROVE  a \div b \in Nat
BY SMT

\* Every candidate of the search has a frequency and a distance from the target.
LEMMA CandidateType ==
    ASSUME SearchTypeOK, NEW f \in Fbdivs, NEW p1 \in Postdivs, NEW p2 \in Postdivs
    PROVE  /\ Vco(f) \in Nat
           /\ Out(f, p1, p2) \in Nat
           /\ Margin(f, p1, p2) \in Nat
<1>1. /\ f \in Nat /\ input_clk \in Nat /\ target_clk \in Nat
      /\ p1 \in Nat /\ p1 # 0 /\ p2 \in Nat /\ p2 # 0
  BY PllAssumption DEF SearchTypeOK, Fbdivs, Postdivs
<1>2. Vco(f) \in Nat
  BY <1>1, SMT DEF Vco
<1>3. Vco(f) \div p1 \in Nat
  BY <1>1, <1>2, DivNat
<1>4. Out(f, p1, p2) \in Nat
  BY <1>1, <1>3, DivNat DEF Out
<1>5. Margin(f, p1, p2) \in Nat
  BY <1>1, <1>4, SMT DEF Margin, Distance
<1> QED
  BY <1>2, <1>4, <1>5

-----------------------------------------------------------------------------
\* The search begins in a state of its type.
LEMMA InitType == SearchInit => SearchTypeOK
BY PllAssumption, SMT DEF SearchInit, SearchTypeOK, Fbdivs, Postdivs, NoSetting

\* A step to the next feedback divider keeps it within one of its range.
LEMMA NextFbdivType ==
    ASSUME SearchTypeOK, NextFbdiv, fbdiv \in Fbdivs, UNCHANGED arguments
    PROVE  /\ fbdiv' \in FbdivMin - 1 .. FbdivMax + 1
           /\ pc' \in {"outer", "done"}
           /\ pc' = "outer" => fbdiv' \in Fbdivs
           /\ pc' = "done" => fbdiv' = IF low_vco' THEN FbdivMax + 1 ELSE FbdivMin - 1
BY PllAssumption, SMT DEF SearchTypeOK, NextFbdiv, Fbdivs, arguments

\* A turn of the inner loop leaves best and its margin well typed.
LEMMA TryType ==
    ASSUME SearchTypeOK, pc = "inner", Try
    PROVE  /\ best' \in [actual_clk : Nat, fbdiv : Nat, postdiv1 : Nat, postdiv2 : Nat]
           /\ best_margin' \in Nat
<1>1. fbdiv \in Fbdivs /\ pd1 \in Postdivs /\ pd2 \in Postdivs
  BY DEF SearchTypeOK
<1>2. Out(fbdiv, pd1, pd2) \in Nat /\ Margin(fbdiv, pd1, pd2) \in Nat
  BY <1>1, CandidateType
<1>3. fbdiv \in Nat /\ pd1 \in Nat /\ pd2 \in Nat
  BY <1>1, PllAssumption, SMT DEF Fbdivs, Postdivs
<1> QED
  BY <1>2, <1>3 DEF Try, SearchTypeOK

LEMMA NextType == SearchTypeOK /\ [SearchNext]_search => SearchTypeOK'
<1> SUFFICES ASSUME SearchTypeOK, [SearchNext]_search PROVE SearchTypeOK'
  OBVIOUS
<1>1. CASE Continue
  <2>1. fbdiv \in Fbdivs
    BY <1>1 DEF Continue, SearchTypeOK
  <2> QED
    BY <1>1, <2>1, NextFbdivType DEF Continue, SearchTypeOK, arguments
<1>2. CASE Enter
  <2>1. fbdiv \in Fbdivs /\ 1 \in Postdivs
    BY <1>2, PllAssumption, SMT DEF Enter, SearchTypeOK, Postdivs
  <2> QED
    BY <1>2, <2>1 DEF Enter, SearchTypeOK, arguments, InRange, Vco
<1>3. CASE Turn
  <2>0. pc = "inner" /\ Try /\ UNCHANGED arguments
    BY <1>3 DEF Turn
  <2>1. /\ best' \in [actual_clk : Nat, fbdiv : Nat, postdiv1 : Nat, postdiv2 : Nat]
        /\ best_margin' \in Nat
    BY <2>0, TryType
  <2>2. fbdiv \in Fbdivs /\ InRange(fbdiv)
    BY <2>0 DEF SearchTypeOK
  <2>3. CASE MorePd1 /\ pd1' = pd1 + 1 /\ UNCHANGED <<pc, fbdiv, pd2>>
    <3>1. pd1' \in Postdivs
      BY <2>3, PllAssumption, SMT DEF MorePd1, SearchTypeOK, Postdivs
    <3> QED
      BY <2>0, <2>1, <2>2, <2>3, <3>1 DEF SearchTypeOK, arguments, InRange, Vco
  <2>4. CASE pd2 < PostdivMax /\ pd1' = 1 /\ pd2' = pd2 + 1 /\ UNCHANGED <<pc, fbdiv>>
    <3>1. pd1' \in Postdivs /\ pd2' \in Postdivs
      BY <2>4, PllAssumption, SMT DEF SearchTypeOK, Postdivs
    <3> QED
      BY <2>0, <2>1, <2>2, <2>4, <3>1 DEF SearchTypeOK, arguments, InRange, Vco
  <2>5. CASE NextFbdiv /\ UNCHANGED <<pd1, pd2>>
    <3>1. /\ fbdiv' \in FbdivMin - 1 .. FbdivMax + 1
          /\ pc' \in {"outer", "done"}
          /\ pc' = "outer" => fbdiv' \in Fbdivs
          /\ pc' = "done" => fbdiv' = IF low_vco' THEN FbdivMax + 1 ELSE FbdivMin - 1
      BY <2>0, <2>2, <2>5, NextFbdivType
    <3> QED
      BY <2>0, <2>1, <2>5, <3>1 DEF SearchTypeOK, arguments
  <2> QED
    BY <1>3, <2>3, <2>4, <2>5 DEF Turn
<1>4. CASE UNCHANGED search
  BY <1>4 DEF search, arguments, SearchTypeOK, InRange, Vco
<1> QED
  BY <1>1, <1>2, <1>3, <1>4 DEF SearchNext

\* Every variable of the search keeps its type: the loops stay in their ranges
\* (rp2-pll.hpp:33-49).
THEOREM SearchTypeCorrect == SearchSpec => []SearchTypeOK
BY InitType, NextType, PTL DEF SearchSpec

-----------------------------------------------------------------------------
\* The distances of the candidates depend on the arguments only.
LEMMA ArgumentsFixed ==
    ASSUME UNCHANGED arguments, NEW f, NEW p1, NEW p2
    PROVE  /\ InRange(f)' <=> InRange(f)
           /\ Out(f, p1, p2)' = Out(f, p1, p2)
           /\ Margin(f, p1, p2)' = Margin(f, p1, p2)
BY DEF arguments, InRange, Out, Margin, Distance, Vco

\* The order of the loops: after one step, what has been visited was visited
\* before, or is the candidate of this step.
LEMMA VisitedContinue ==
    ASSUME SearchTypeOK, Continue, NEW f \in Fbdivs, NEW p1 \in Postdivs, NEW p2 \in Postdivs,
           InRange(f), Visited(f, p1, p2)'
    PROVE  Visited(f, p1, p2)
<1>1. fbdiv \in Int /\ f \in Int /\ low_vco' = low_vco
  BY PllAssumption, SMT DEF SearchTypeOK, Fbdivs, Continue, arguments
<1>2. pc' # "inner" /\ fbdiv' = IF low_vco THEN fbdiv + 1 ELSE fbdiv - 1
  BY DEF Continue, NextFbdiv
<1>3. FbdivDone(f)'
  BY <1>2 DEF Visited
<1>4. FbdivDone(f) \/ f = fbdiv
  BY <1>1, <1>2, <1>3, SMT DEF FbdivDone
<1>5. f # fbdiv
  BY DEF Continue
<1> QED
  BY <1>4, <1>5 DEF Visited

LEMMA VisitedEnter ==
    ASSUME SearchTypeOK, Enter, NEW f \in Fbdivs, NEW p1 \in Postdivs, NEW p2 \in Postdivs,
           Visited(f, p1, p2)'
    PROVE  Visited(f, p1, p2)
<1>1. /\ p1 \in Int /\ p2 \in Int /\ 1 <= p1 /\ 1 <= p2
      /\ fbdiv' = fbdiv /\ low_vco' = low_vco /\ pd1' = 1 /\ pd2' = 1
  BY PllAssumption, SMT DEF Postdivs, Enter, arguments
<1>2. ~(p2 < 1 \/ (p2 = 1 /\ p1 < 1))
  BY <1>1, SMT
<1> QED
  BY <1>1, <1>2 DEF Visited, FbdivDone

LEMMA VisitedTurn ==
    ASSUME SearchTypeOK, Turn, NEW f \in Fbdivs, NEW p1 \in Postdivs, NEW p2 \in Postdivs,
           Visited(f, p1, p2)'
    PROVE  Visited(f, p1, p2) \/ (f = fbdiv /\ p1 = pd1 /\ p2 = pd2)
<1>1. /\ fbdiv \in Int /\ f \in Int /\ low_vco' = low_vco /\ pc = "inner"
      /\ p1 \in Int /\ p2 \in Int /\ pd1 \in Int /\ pd2 \in Int
      /\ 1 <= p1 /\ p1 <= PostdivMax /\ p2 <= PostdivMax /\ PostdivMax \in Int
      /\ pd1 <= PostdivMax
  BY PllAssumption, SMT DEF SearchTypeOK, Fbdivs, Postdivs, Turn, arguments
<1>2. CASE MorePd1 /\ pd1' = pd1 + 1 /\ UNCHANGED <<pc, fbdiv, pd2>>
  BY <1>1, <1>2, SMT DEF Visited, FbdivDone
<1>3. CASE ~MorePd1 /\ pd1' = 1 /\ pd2' = pd2 + 1 /\ UNCHANGED <<pc, fbdiv>>
  <2>1. pd1 = PostdivMax
    BY <1>1, <1>3, SMT DEF MorePd1
  <2> QED
    BY <1>1, <1>3, <2>1, SMT DEF Visited, FbdivDone
<1>4. CASE ~MorePd1 /\ pd2 = PostdivMax /\ NextFbdiv
  <2>1. pd1 = PostdivMax
    BY <1>1, <1>4, SMT DEF MorePd1
  <2>2. pc' # "inner" /\ fbdiv' = IF low_vco THEN fbdiv + 1 ELSE fbdiv - 1
    BY <1>4 DEF NextFbdiv
  <2>3. FbdivDone(f)'
    BY <2>2 DEF Visited
  <2>4. FbdivDone(f) \/ f = fbdiv
    BY <1>1, <2>2, <2>3, SMT DEF FbdivDone
  <2> QED
    BY <1>1, <1>4, <2>1, <2>4, SMT DEF Visited
<1> QED
  BY <1>2, <1>3, <1>4 DEF Turn

-----------------------------------------------------------------------------
\* The turn of the inner loop leaves a margin no larger than before, and no
\* larger than that of the candidate it tried.
LEMMA TryImproves ==
    ASSUME SearchTypeOK, pc = "inner", Try
    PROVE  best_margin' <= best_margin /\ best_margin' <= Margin(fbdiv, pd1, pd2)
<1>1. fbdiv \in Fbdivs /\ pd1 \in Postdivs /\ pd2 \in Postdivs /\ best_margin \in Nat
  BY DEF SearchTypeOK
<1>2. Margin(fbdiv, pd1, pd2) \in Nat
  BY <1>1, CandidateType
<1> QED
  BY <1>1, <1>2, SMT DEF Try, Better

LEMMA InitVisited == SearchInit => BestOfVisited
<1> SUFFICES ASSUME SearchInit, NEW f \in Fbdivs, NEW p1 \in Postdivs, NEW p2 \in Postdivs,
                    InRange(f), Visited(f, p1, p2)
             PROVE  FALSE
  BY DEF BestOfVisited
<1>1. f \in Int /\ FbdivMin <= f /\ f <= FbdivMax /\ FbdivMin \in Int /\ FbdivMax \in Int
  BY PllAssumption, SMT DEF Fbdivs
<1>2. pc = "outer" /\ fbdiv = IF low_vco THEN FbdivMin ELSE FbdivMax
  BY DEF SearchInit
<1> QED
  BY <1>1, <1>2, SMT DEF Visited, FbdivDone

LEMMA NextVisited == SearchTypeOK /\ SearchTypeOK' /\ BestOfVisited /\ [SearchNext]_search => BestOfVisited'
<1> SUFFICES ASSUME SearchTypeOK, SearchTypeOK', BestOfVisited, [SearchNext]_search,
                    NEW f \in Fbdivs, NEW p1 \in Postdivs, NEW p2 \in Postdivs,
                    InRange(f)', Visited(f, p1, p2)'
             PROVE  best_margin' <= Margin(f, p1, p2)'
  BY DEF BestOfVisited, Fbdivs, Postdivs
<1>1. UNCHANGED arguments
  BY DEF SearchNext, Continue, Enter, Turn, search
<1>2. InRange(f) /\ Margin(f, p1, p2)' = Margin(f, p1, p2)
  BY <1>1, ArgumentsFixed
<1>3. Margin(f, p1, p2) \in Nat /\ best_margin \in Nat /\ best_margin' \in Nat
  BY CandidateType DEF SearchTypeOK
<1>4. Visited(f, p1, p2) => best_margin <= Margin(f, p1, p2)
  BY <1>2 DEF BestOfVisited
<1>5. CASE Continue
  BY <1>2, <1>4, <1>5, VisitedContinue DEF Continue
<1>6. CASE Enter
  BY <1>2, <1>4, <1>6, VisitedEnter DEF Enter
<1>7. CASE Turn
  <2>1. best_margin' <= best_margin /\ best_margin' <= Margin(fbdiv, pd1, pd2)
    BY <1>7, TryImproves DEF Turn
  <2>2. CASE Visited(f, p1, p2)
    BY <1>2, <1>3, <1>4, <2>1, <2>2, SMT
  <2>3. CASE f = fbdiv /\ p1 = pd1 /\ p2 = pd2
    BY <1>2, <2>1, <2>3
  <2> QED
    BY <1>7, <2>2, <2>3, VisitedTurn
<1>8. CASE UNCHANGED search
  <2>1. Visited(f, p1, p2) /\ best_margin' = best_margin
    BY <1>8 DEF search, arguments, Visited, FbdivDone
  <2> QED
    BY <1>2, <1>4, <2>1
<1> QED
  BY <1>5, <1>6, <1>7, <1>8 DEF SearchNext

\* The loop invariant: at every point, nothing the loops have been through is
\* closer to the target than what is kept (rp2-pll.hpp:50-56).
THEOREM KeepsBest == SearchSpec => []BestOfVisited
<1>1. SearchInit => SearchTypeOK /\ BestOfVisited
  BY InitType, InitVisited
<1>2. SearchTypeOK /\ BestOfVisited /\ [SearchNext]_search => (SearchTypeOK /\ BestOfVisited)'
  BY NextType, NextVisited
<1> QED
  BY <1>1, <1>2, PTL DEF SearchSpec

LEMMA DoneIsClosest == SearchTypeOK /\ BestOfVisited => Closest
<1> SUFFICES ASSUME SearchTypeOK, BestOfVisited, pc = "done",
                    NEW f \in Fbdivs, NEW p1 \in Postdivs, NEW p2 \in Postdivs, InRange(f)
             PROVE  best_margin <= Margin(f, p1, p2)
  BY DEF Closest
<1>1. f \in Int /\ FbdivMin <= f /\ f <= FbdivMax /\ FbdivMin \in Int /\ FbdivMax \in Int
  BY PllAssumption, SMT DEF Fbdivs
<1>2. fbdiv = IF low_vco THEN FbdivMax + 1 ELSE FbdivMin - 1
  BY DEF SearchTypeOK
<1>3. Visited(f, p1, p2)
  BY <1>1, <1>2, SMT DEF Visited, FbdivDone
<1> QED
  BY <1>3 DEF BestOfVisited

\* compute returns the closest frequency the PLL can make (rp2-pll.hpp:29-61).
THEOREM ReturnsClosest == SearchSpec => []Closest
BY SearchTypeCorrect, KeepsBest, DoneIsClosest, PTL

-----------------------------------------------------------------------------
(***************************************************************************)
(* The board.  Its compiler runs the search once for each PLL, and what    *)
(* the search returns is the closest each time.                            *)
(***************************************************************************)
SearchInv == pc = "returned" \/ (SearchTypeOK /\ BestOfVisited)

LEMMA SearchStarts == Init => SearchInv
BY InitType, InitVisited DEF Init, SearchInv

\* The second search begins like the first, with the target of pll_usb.
LEMMA SecondSearch ==
    ASSUME SearchInv, SysSettings PROVE SearchInv'
<1>1. SearchTypeOK /\ ~low_vco /\ pc = "done"
  BY DEF SearchInv, SysSettings, Searching
<1>2. SearchInit'
  BY <1>1, BoardAssumption, SMT
     DEF SysSettings, SearchInit, SearchTypeOK, NoSetting, Plls
<1>3. (SearchInit => SearchTypeOK)' /\ (SearchInit => BestOfVisited)'
  BY InitType, InitVisited, PTL
<1> QED BY <1>2, <1>3 DEF SearchInv

LEMMA SearchGoesOn == SearchInv /\ [Next]_vars => SearchInv'
<1> SUFFICES ASSUME SearchInv, [Next]_vars PROVE SearchInv'
  OBVIOUS
<1>1. CASE UNCHANGED search
  <2>1. pc' = pc
    BY <1>1 DEF search
  <2>2. CASE pc = "returned"
    BY <2>1, <2>2 DEF SearchInv
  <2>3. CASE SearchTypeOK /\ BestOfVisited
    BY <1>1, <2>3, NextType, NextVisited DEF SearchInv
  <2> QED BY <2>2, <2>3 DEF SearchInv
<1>2. CASE SearchNext
  <2>1. pc # "returned"
    BY <1>2 DEF SearchNext, Continue, Enter, Turn
  <2> QED BY <1>2, <2>1, NextType, NextVisited DEF SearchInv
<1>3. CASE SysSettings
  BY <1>3, SecondSearch
<1>4. CASE UsbSettings
  BY <1>4 DEF UsbSettings, SearchInv
<1>5. Next => SearchNext \/ SysSettings \/ UsbSettings \/ UNCHANGED search
  BY DEF Next, Compile, Processor, UartSends, RestartCore
<1> QED BY <1>1, <1>2, <1>3, <1>4, <1>5 DEF vars

\* The settings the board's clocks are started with are the closest there are,
\* for both of its PLLs (rp2-pll.hpp:29-61, hw.hpp:57-79).
THEOREM BoardSearchesClosest == Spec => []Closest
<1>1. SearchInv => Closest
  BY DoneIsClosest DEF SearchInv, Closest
<1> QED BY <1>1, SearchStarts, SearchGoesOn, PTL DEF Spec

-----------------------------------------------------------------------------
(***************************************************************************)
(* The processor's clock.  Call i of the program s finds clock c on the    *)
(* oscillator inside the chip: preinit_clks_to_internal has put it there,  *)
(* and start has not been called for it since.                             *)
(***************************************************************************)
InternalIn(s, c, i) ==
    \E j \in 1 .. i - 1 :
        /\ s[j] = <<"internal", c>>
        /\ \A k \in j + 1 .. i : s[k] # <<"start", c>>

\* The program s touches a PLL only while neither ref nor sys can be running
\* from it.
Frees(s) ==
    \A i \in 1 .. Len(s), p \in Plls :
        s[i] \in {<<"start", p>>, <<"stop", p>>} => \A c \in Glitchless : InternalIn(s, c, i)

Internally(c, i) == InternalIn(Program, c, i)
PllsFreed == Frees(Program)

\* The fields of the registers that are written one at a time.
Shapes ==
    /\ DOMAIN mux = Clocks
    /\ \A c \in Clocks : {"src", "aux", "selected"} \subseteq DOMAIN mux[c]
    /\ DOMAIN pll = Plls /\ \A p \in Plls : {"lock", "post"} \subseteq DOMAIN pll[p]
    /\ "stable" \in DOMAIN xosc
    /\ at \in Nat \ {0}

\* Clock c runs from its input 0 and will go on doing so.
Parked(c) == mux[c].src = 0 /\ mux[c].selected = 0

\* What the place in the program says of the multiplexer of c.
PlaceInv(c) ==
    /\ {mux[c].src, mux[c].selected} \subseteq {0, Src(c)}
    /\ Internally(c, at) => Parked(c)
    /\ Here("internal", c, "wait") => mux[c].src = 0
    /\ Here("start", c, "parked") => mux[c].src = 0
    /\ Here("start", c, "aux") => Parked(c)

\* The loop of blocking_write is the only step without a call of its own name.
WritesInLog == line = "write" => Program[at][1] = "log"

ClockInv ==
    /\ Shapes /\ WritesInLog
    /\ \A c \in Glitchless : PlaceInv(c)
    /\ CpuClocked

-----------------------------------------------------------------------------
\* Moving on to the next call: a clock is internal there only if it was, or if
\* the call that returned made it so.
LEMMA InternallyNext ==
    ASSUME NEW c, NEW i \in Nat \ {0}, Internally(c, i + 1)
    PROVE  Internally(c, i) \/ Program[i] = <<"internal", c>>
<1>1. PICK j \in 1 .. i : /\ Program[j] = <<"internal", c>>
                          /\ \A k \in j + 1 .. i + 1 : Program[k] # <<"start", c>>
  BY DEF Internally, InternalIn
<1>2. CASE j = i
  BY <1>1, <1>2
<1>3. CASE j \in 1 .. i - 1
  BY <1>1, <1>3 DEF Internally, InternalIn
<1> QED BY <1>2, <1>3

\* A call that returns: the multiplexer of c as it was.
LEMMA PlaceReturns ==
    ASSUME ClockInv, Return, NEW c \in Glitchless,
           mux'[c].src = mux[c].src, mux'[c].selected = mux[c].selected,
           Program[at] = <<"internal", c>> => Parked(c)
    PROVE  PlaceInv(c)'
<1>1. at \in Nat \ {0} /\ PlaceInv(c)
  BY DEF ClockInv, Shapes
<1>2. at' = at + 1 /\ line' = "enter"
  BY DEF Return
<1>3. Parked(c) => Parked(c)'
  BY DEF Parked
<1>4. (Internally(c, at))' => Parked(c)'
  <2>1. ASSUME (Internally(c, at))' PROVE Parked(c)
    <3>1. Internally(c, at + 1)
      BY <1>2, <2>1 DEF Internally, InternalIn
    <3>2. Internally(c, at) \/ Program[at] = <<"internal", c>>
      BY <1>1, <3>1, InternallyNext
    <3> QED BY <1>1, <3>2 DEF PlaceInv
  <2> QED BY <1>3, <2>1
<1> QED BY <1>1, <1>2, <1>4 DEF PlaceInv, Here

\* A call that concerns another clock, or none, goes on.
LEMMA PlaceStays ==
    ASSUME ClockInv, at' = at, NEW c \in Glitchless,
           mux'[c].src = mux[c].src, mux'[c].selected = mux[c].selected,
           Program[at] \notin {<<"internal", c>>, <<"start", c>>}
    PROVE  PlaceInv(c)'
<1>1. PlaceInv(c)
  BY DEF ClockInv
<1>2. (Internally(c, at))' <=> Internally(c, at)
  BY DEF Internally, InternalIn
<1> QED BY <1>1, <1>2 DEF PlaceInv, Here, Parked

\* Where the program is does not matter to the clock; only these fields do.
LEMMA KeepsRunning ==
    ASSUME SysRuns, mux["ref"].selected \in {0, 1, 2},
           mux'["ref"].selected = mux["ref"].selected,
           mux'["sys"].selected = mux["sys"].selected,
           mux["sys"].selected # 0 => mux'["sys"].aux = mux["sys"].aux,
           xosc.stable => xosc'.stable,
           \A p \in Plls : PllRuns(p) => PllRuns(p)'
    PROVE  SysRuns'
<1>1. ASSUME NEW s, SourceRuns(s) PROVE SourceRuns(s)'
  BY <1>1 DEF SourceRuns
<1>2. RefRuns => RefRuns'
  <2>1. CASE mux["ref"].selected = 0
    BY <2>1 DEF RefRuns, RefRunsFrom
  <2>2. CASE mux["ref"].selected = 1
    BY <2>2 DEF RefRuns, RefRunsFrom, Plls
  <2>3. CASE mux["ref"].selected = 2
    BY <2>3 DEF RefRuns, RefRunsFrom
  <2> QED BY <2>1, <2>2, <2>3
<1>3. CASE mux["sys"].selected = 0
  BY <1>2, <1>3 DEF SysRuns, SysRunsFrom
<1>4. CASE mux["sys"].selected # 0
  <2>1. SourceRuns(AuxInput("sys", mux["sys"].aux))
    BY <1>4 DEF SysRuns, SysRunsFrom
  <2>2. SourceRuns(AuxInput("sys", mux["sys"].aux))'
    BY <1>1, <1>4, <2>1
  <2> QED BY <1>4, <2>2 DEF SysRuns, SysRunsFrom
<1> QED BY <1>3, <1>4

LEMMA ParkedRuns ==
    ASSUME mux["ref"].selected = 0, mux["sys"].selected = 0 PROVE SysRuns
BY DEF SysRuns, SysRunsFrom, RefRuns, RefRunsFrom

-----------------------------------------------------------------------------
\* The call being made leaves the multiplexers of ref and sys alone.
Elsewhere ==
    \A c \in Glitchless :
        /\ Program[at] \notin {<<"internal", c>>, <<"start", c>>}
        /\ mux'[c].src = mux[c].src /\ mux'[c].selected = mux[c].selected

\* The call goes on, or returns.
Proceeds == Return \/ (at' = at /\ (line' = "write" => Program[at][1] = "log"))

LEMMA RefSelected == ClockInv => mux["ref"].selected \in {0, 1, 2}
BY DEF ClockInv, PlaceInv, Glitchless, Src

LEMMA ElsewhereKeeps ==
    ASSUME ClockInv, Elsewhere, Proceeds, Shapes', SysRuns'
    PROVE  ClockInv'
<1>1. ASSUME NEW c \in Glitchless PROVE PlaceInv(c)'
  <2>1. CASE Return
    BY <1>1, <2>1, PlaceReturns DEF Elsewhere
  <2>2. CASE at' = at
    BY <1>1, <2>2, PlaceStays DEF Elsewhere
  <2> QED BY <2>1, <2>2 DEF Proceeds
<1>2. WritesInLog'
  BY DEF Proceeds, Return, WritesInLog
<1> QED BY <1>1, <1>2 DEF ClockInv, CpuClocked

\* The place in the program after a step of it.
LEMMA AtType == ASSUME ClockInv, Proceeds PROVE at' \in Nat \ {0}
BY DEF ClockInv, Shapes, Proceeds, Return

\* The calls of the rest of the board.
LEMMA QuietKeeps ==
    ASSUME ClockInv, UNCHANGED <<xosc, pll, mux>>, Proceeds,
           \A c \in Glitchless : Program[at] \notin {<<"internal", c>>, <<"start", c>>}
    PROVE  ClockInv'
<1>1. Shapes'
  BY AtType DEF ClockInv, Shapes
<1>2. SysRuns'
  BY DEF ClockInv, CpuClocked, SysRuns, SysRunsFrom, RefRuns, RefRunsFrom, SourceRuns, PllRuns
<1> QED BY <1>1, <1>2, ElsewhereKeeps DEF Elsewhere

LEMMA XoscKeeps ==
    ASSUME ClockInv, XoscStart \/ XoscStop PROVE ClockInv'
<1>1. Program[at] \in {<<"start", "xosc">>, <<"stop", "xosc">>} /\ UNCHANGED <<pll, mux>>
  BY DEF XoscStart, XoscStop, Here
<1>2. Proceeds
  BY DEF XoscStart, XoscStop, Proceeds, GoTo
<1>3. DOMAIN xosc' = DOMAIN xosc /\ xosc'.stable = xosc.stable
  BY DEF XoscStart, XoscStop, ClockInv, Shapes
<1>4. Shapes'
  BY <1>1, <1>2, <1>3, AtType DEF ClockInv, Shapes
<1>5. SysRuns'
  BY <1>1, <1>3, KeepsRunning, RefSelected DEF ClockInv, CpuClocked, PllRuns
<1>6. Elsewhere
  BY <1>1 DEF Elsewhere, Glitchless
<1> QED BY <1>2, <1>4, <1>5, <1>6, ElsewhereKeeps

\* start and stop of a PLL: whatever they do to it, nothing the processor runs
\* from depends on it.
LEMMA PllKeeps ==
    ASSUME ClockInv, PllsFreed, NEW p \in Plls, PllStart(p) \/ PllStop(p)
    PROVE  ClockInv'
<1>1. /\ Program[at] \in {<<"start", p>>, <<"stop", p>>} /\ at \in 1 .. Len(Program)
      /\ UNCHANGED <<xosc, mux>>
  <2>1. UNCHANGED <<xosc, mux>>
    BY DEF PllStart, PllStop
  <2>2. \E l : Here("start", p, l) \/ Here("stop", p, l)
    BY DEF PllStart, PllStop
  <2>3. at \in Nat \ {0}
    BY DEF ClockInv, Shapes
  <2>4. at <= Len(Program) /\ Program[at] \in {<<"start", p>>, <<"stop", p>>}
    BY <2>2 DEF Here
  <2>5. Len(Program) \in Nat
    BY ClocksAssumption
  <2>6. at \in 1 .. Len(Program)
    BY <2>3, <2>4, <2>5
  <2> QED BY <2>1, <2>4, <2>6
<1>2. Proceeds
  BY DEF PllStart, PllStop, Proceeds, GoTo
<1>3. DOMAIN pll' = Plls /\ \A q \in Plls : {"lock", "post"} \subseteq DOMAIN pll'[q]
  <2>1. pll' = pll \/ \E new : /\ {"lock", "post"} \subseteq DOMAIN new
                              /\ pll' = [pll EXCEPT ![p] = new]
    <3>1. {"lock", "post"} \subseteq DOMAIN pll[p]
      BY DEF ClockInv, Shapes
    <3>2. ASSUME NEW new, {"lock", "post"} \subseteq DOMAIN new, Write(p, new)
          PROVE  <2>1!1 \/ <2>1!2
      BY <3>1, <3>2 DEF Write
    <3>3. CASE Here("start", p, "enter") /\ PllStart(p)
      <4>1. {"lock", "post"} \subseteq DOMAIN PllOff(FALSE)
        BY DEF PllOff
      <4> QED BY <3>1, <3>3, <4>1 DEF PllStart, Here
    <3> DEFINE Feedback == [pll[p] EXCEPT !.fbdiv = params[p].fbdiv, !.on = TRUE, !.post = FALSE]
               Post == [pll[p] EXCEPT !.post = TRUE,
                           !.postdiv = <<params[p].postdiv1, params[p].postdiv2>>]
               Stop == [pll[p] EXCEPT !.on = FALSE, !.lock = FALSE, !.post = FALSE]
    <3>4. DOMAIN Feedback = DOMAIN pll[p] /\ DOMAIN Post = DOMAIN pll[p]
          /\ DOMAIN Stop = DOMAIN pll[p]
      OBVIOUS
    <3>5. \/ Write(p, Feedback) \/ Write(p, Post) \/ Write(p, Stop) \/ pll' = pll
          \/ Here("start", p, "enter") /\ PllStart(p)
      BY DEF PllStart, PllStop
    <3> HIDE DEF Feedback, Post, Stop
    <3> QED BY <3>1, <3>2, <3>3, <3>4, <3>5
  <2> QED BY <2>1 DEF ClockInv, Shapes
<1>4. Shapes'
  BY <1>1, <1>2, <1>3, AtType DEF ClockInv, Shapes
<1>5. \A c \in Glitchless : Parked(c)
  BY <1>1 DEF PllsFreed, Frees, Internally, ClockInv, PlaceInv
<1>6. SysRuns'
  <2>1. mux'["ref"].selected = 0 /\ mux'["sys"].selected = 0
    BY <1>1, <1>5 DEF Parked, Glitchless
  <2> QED BY <2>1 DEF SysRuns, SysRunsFrom, RefRuns, RefRunsFrom
<1>7. Elsewhere
  BY <1>1 DEF Elsewhere, Glitchless, Plls
<1> QED BY <1>2, <1>4, <1>6, <1>7, ElsewhereKeeps

-----------------------------------------------------------------------------
\* What a step that writes the registers of clock c leaves as it was.
Writes(c) ==
    /\ DOMAIN mux' = Clocks
    /\ \A d \in Clocks \ {c} : mux'[d] = mux[d]
    /\ {"src", "aux", "selected"} \subseteq DOMAIN mux'[c]
    /\ mux'[c].selected = mux[c].selected

LEMMA WritesShapes ==
    ASSUME ClockInv, NEW c \in Clocks, Writes(c), UNCHANGED <<pll, xosc>>, Proceeds
    PROVE  Shapes'
<1>1. \A d \in Clocks : {"src", "aux", "selected"} \subseteq DOMAIN mux'[d]
  BY DEF Writes, ClockInv, Shapes
<1> QED BY <1>1, AtType DEF Writes, ClockInv, Shapes

LEMMA WritesRuns ==
    ASSUME ClockInv, NEW c \in Clocks, Writes(c), UNCHANGED <<pll, xosc>>,
           c = "sys" /\ mux["sys"].selected # 0 => mux'["sys"].aux = mux["sys"].aux
    PROVE  SysRuns'
<1>1. /\ mux'["ref"].selected = mux["ref"].selected
      /\ mux'["sys"].selected = mux["sys"].selected
      /\ mux["sys"].selected # 0 => mux'["sys"].aux = mux["sys"].aux
  BY DEF Writes, Clocks
<1> QED BY <1>1, KeepsRunning, RefSelected DEF ClockInv, CpuClocked, PllRuns

\* start and stop of a clock other than ref and sys, and stop of these.
LEMMA OtherClockKeeps ==
    ASSUME ClockInv, NEW c \in Clocks, ClkStop(c) \/ (c \notin Glitchless /\ ClkStart(c))
    PROVE  ClockInv'
<1>0. {"src", "aux", "selected"} \subseteq DOMAIN mux[c] /\ DOMAIN mux = Clocks
  BY DEF ClockInv, Shapes
<1>1. Writes(c) /\ (c \in Glitchless => mux'[c].src = mux[c].src /\ mux'[c].aux = mux[c].aux)
  <2>1. CASE ClkStop(c)
    BY <1>0, <2>1 DEF ClkStop, Writes
  <2>2. CASE c \notin Glitchless /\ ClkStart(c)
    <3>1. CASE mux' = [mux EXCEPT ![c].div = DivBefore(c), ![c].enable = FALSE]
      BY <1>0, <2>2, <3>1 DEF Writes
    <3>2. CASE mux' = [mux EXCEPT ![c].aux = Aux(c)]
      BY <1>0, <2>2, <3>2 DEF Writes
    <3>3. CASE mux' = [mux EXCEPT ![c].enable = TRUE, ![c].div = DivFor(c)]
      BY <1>0, <2>2, <3>3 DEF Writes
    <3>4. CASE mux' = mux
      BY <1>0, <2>2, <3>4 DEF Writes
    <3>5. ~Parks(c)
      BY <2>2 DEF Parks
    <3> QED BY <2>2, <3>1, <3>2, <3>3, <3>4, <3>5 DEF ClkStart
  <2> QED BY <2>1, <2>2
<1>2. Proceeds /\ UNCHANGED <<pll, xosc>>
  BY DEF ClkStop, ClkStart, GoTo, Proceeds
<1>3. \/ Program[at] = <<"stop", c>>
      \/ c \notin Glitchless /\ Program[at] = <<"start", c>>
  BY DEF ClkStop, ClkStart, Here
<1>4. Elsewhere
  <2> SUFFICES ASSUME NEW d \in Glitchless
               PROVE  /\ Program[at] \notin {<<"internal", d>>, <<"start", d>>}
                      /\ mux'[d].src = mux[d].src /\ mux'[d].selected = mux[d].selected
    BY DEF Elsewhere
  <2>1. d \in Clocks
    BY DEF Glitchless, Clocks
  <2>2. mux'[d].src = mux[d].src /\ mux'[d].selected = mux[d].selected
    BY <1>1, <2>1 DEF Writes
  <2> QED BY <1>3, <2>2
<1>5. Shapes' /\ SysRuns'
  BY <1>1, <1>2, WritesShapes, WritesRuns DEF Glitchless
<1> QED BY <1>2, <1>4, <1>5, ElsewhereKeeps

\* A step of a call that concerns the multiplexer of c: the others keep to
\* their places.
LEMMA OthersStay ==
    ASSUME ClockInv, NEW c \in Glitchless, Writes(c), Proceeds,
           Program[at] \in {<<"internal", c>>, <<"start", c>>},
           NEW d \in Glitchless \ {c}
    PROVE  PlaceInv(d)'
<1>1. /\ mux'[d].src = mux[d].src /\ mux'[d].selected = mux[d].selected
      /\ Program[at] \notin {<<"internal", d>>, <<"start", d>>}
  BY DEF Writes, Glitchless, Clocks
<1>2. CASE Return
  BY <1>1, <1>2, PlaceReturns
<1>3. CASE at' = at
  BY <1>1, <1>3, PlaceStays
<1> QED BY <1>2, <1>3 DEF Proceeds

LEMMA PlacesKeep ==
    ASSUME ClockInv, NEW c \in Glitchless, Writes(c), Proceeds, UNCHANGED <<pll, xosc>>,
           Program[at] \in {<<"internal", c>>, <<"start", c>>},
           mux[c].selected # 0 => mux'[c].aux = mux[c].aux,
           PlaceInv(c)'
    PROVE  ClockInv'
<1>1. \A d \in Glitchless : PlaceInv(d)'
  BY OthersStay
<1>2. Shapes' /\ SysRuns'
  BY WritesShapes, WritesRuns DEF Glitchless, Clocks
<1>3. WritesInLog'
  BY DEF Proceeds, Return, WritesInLog
<1> QED BY <1>1, <1>2, <1>3 DEF ClockInv, CpuClocked

\* preinit_clks_to_internal.
LEMMA InternalKeeps ==
    ASSUME ClockInv, NEW c \in Glitchless, Internal(c) PROVE ClockInv'
<1>1. /\ c \in Clocks /\ DOMAIN mux = Clocks /\ PlaceInv(c)
      /\ {"src", "aux", "selected"} \subseteq DOMAIN mux[c]
  BY DEF ClockInv, Shapes, Glitchless, Clocks
<1>2. Program[at] = <<"internal", c>> /\ UNCHANGED <<pll, xosc>> /\ Proceeds
  BY DEF Internal, Here, Proceeds, GoTo
<1>3. CASE Here("internal", c, "enter") /\ Internal(c)
  <2>1. mux' = [mux EXCEPT ![c].src = 0] /\ at' = at
    BY <1>3 DEF Internal, Here, GoTo
  <2>2. Writes(c) /\ mux'[c].src = 0 /\ mux'[c].aux = mux[c].aux
    BY <1>1, <2>1 DEF Writes
  <2>3. (Internally(c, at))' <=> Internally(c, at)
    BY <2>1 DEF Internally, InternalIn
  <2>4. PlaceInv(c)'
    BY <1>1, <1>2, <2>1, <2>2, <2>3 DEF PlaceInv, Parked, Here, Writes
  <2> QED BY <1>2, <2>2, <2>4, PlacesKeep
<1>4. CASE Here("internal", c, "wait") /\ Internal(c)
  <2>1. mux' = mux /\ Return /\ mux[c].selected = 0
    BY <1>4 DEF Internal, Here
  <2>2. Parked(c)
    BY <1>1, <1>4, <2>1 DEF PlaceInv, Parked
  <2>3. PlaceInv(c)'
    BY <2>1, <2>2, PlaceReturns
  <2>4. Writes(c)
    BY <1>1, <2>1 DEF Writes
  <2> QED BY <1>2, <2>1, <2>3, <2>4, PlacesKeep
<1> QED BY <1>3, <1>4 DEF Internal

\* A place in start(c) after a step that stays in it.
LEMMA StartPlace ==
    ASSUME ClockInv, NEW c \in Glitchless, Program[at] = <<"start", c>>, at' = at,
           {mux'[c].src, mux'[c].selected} \subseteq {0, Src(c)},
           line' = "parked" => mux'[c].src = 0,
           line' = "aux" => Parked(c)'
    PROVE  PlaceInv(c)'
<1>1. at \in Nat \ {0}
  BY DEF ClockInv, Shapes
<1>2. ~Internally(c, at)'
  <2> SUFFICES ASSUME Internally(c, at)' PROVE FALSE
    OBVIOUS
  <2>1. PICK j \in 1 .. at - 1 : \A k \in j + 1 .. at : Program[k] # <<"start", c>>
    BY DEF Internally, InternalIn
  <2>2. at \in j + 1 .. at
    BY <1>1, <2>1
  <2> QED BY <2>1, <2>2
<1> QED BY <1>2 DEF PlaceInv, Here

\* start of ref and of sys, line by line.
LEMMA StartKeeps ==
    ASSUME ClockInv, NEW c \in Glitchless, ClkStart(c) PROVE ClockInv'
<1>1. /\ c \in Clocks /\ DOMAIN mux = Clocks /\ PlaceInv(c)
      /\ {"src", "aux", "selected"} \subseteq DOMAIN mux[c]
      /\ {mux[c].src, mux[c].selected} \subseteq {0, Src(c)}
  BY DEF ClockInv, Shapes, Glitchless, Clocks, PlaceInv
<1>2. Program[at] = <<"start", c>> /\ UNCHANGED <<pll, xosc>> /\ Proceeds
  BY DEF ClkStart, Here, Proceeds, GoTo
<1>3. CASE Here("start", c, "enter") /\ Parks(c) /\ ClkStart(c)
  <2>1. mux' = [mux EXCEPT ![c].div = DivBefore(c), ![c].src = 0]
        /\ at' = at /\ line' = "parked"
    BY <1>3 DEF ClkStart, Here, GoTo
  <2>2. Writes(c) /\ mux'[c].src = 0 /\ mux'[c].aux = mux[c].aux
    BY <1>1, <2>1 DEF Writes
  <2>3. PlaceInv(c)'
    BY <1>1, <1>2, <2>1, <2>2, StartPlace DEF Writes
  <2> QED BY <1>2, <2>2, <2>3, PlacesKeep
<1>4. CASE Here("start", c, "parked") /\ ClkStart(c)
  <2>1. mux' = mux /\ at' = at /\ line' = "aux" /\ mux[c].selected = 0
    BY <1>4 DEF ClkStart, Here, GoTo
  <2>2. mux[c].src = 0
    BY <1>1, <1>4 DEF PlaceInv
  <2>3. Writes(c)
    BY <1>1, <2>1 DEF Writes
  <2>4. PlaceInv(c)'
    BY <1>1, <1>2, <2>1, <2>2, StartPlace DEF Parked
  <2> QED BY <1>2, <2>1, <2>3, <2>4, PlacesKeep
<1>5. CASE Here("start", c, "enter") /\ ~Parks(c) /\ ClkStart(c)
  <2>1. mux' = [mux EXCEPT ![c].div = DivBefore(c), ![c].enable = FALSE]
        /\ at' = at /\ line' = "aux"
    BY <1>5 DEF ClkStart, Here, GoTo
  <2>2. Writes(c) /\ mux'[c].src = mux[c].src /\ mux'[c].aux = mux[c].aux
    BY <1>1, <2>1 DEF Writes
  <2>3. mux[c].src = 0 /\ mux[c].selected = 0
    BY <1>1, <1>5 DEF Parks
  <2>4. PlaceInv(c)'
    BY <1>1, <1>2, <2>1, <2>2, <2>3, StartPlace DEF Writes, Parked
  <2> QED BY <1>2, <2>2, <2>4, PlacesKeep
<1>6. CASE Here("start", c, "aux") /\ ClkStart(c)
  <2>1. mux' = [mux EXCEPT ![c].aux = Aux(c), ![c].src = Src(c)]
        /\ at' = at /\ line' = "switched"
    BY <1>6 DEF ClkStart, Here, GoTo
  <2>2. Writes(c) /\ mux'[c].src = Src(c)
    BY <1>1, <2>1 DEF Writes
  <2>3. mux[c].selected = 0
    BY <1>1, <1>6 DEF PlaceInv, Parked
  <2>4. PlaceInv(c)'
    BY <1>1, <1>2, <2>1, <2>2, <2>3, StartPlace DEF Writes
  <2> QED BY <1>2, <2>2, <2>3, <2>4, PlacesKeep
<1>7. CASE Here("start", c, "switched") /\ ClkStart(c)
  <2>1. mux' = mux /\ at' = at /\ line' = "enable"
    BY <1>7 DEF ClkStart, Here, GoTo
  <2>2. Writes(c)
    BY <1>1, <2>1 DEF Writes
  <2>3. PlaceInv(c)'
    BY <1>1, <1>2, <2>1, StartPlace
  <2> QED BY <1>2, <2>1, <2>2, <2>3, PlacesKeep
<1>8. CASE Here("start", c, "enable") /\ ClkStart(c)
  <2>1. mux' = [mux EXCEPT ![c].enable = TRUE, ![c].div = DivFor(c)] /\ Return
    BY <1>8 DEF ClkStart, Here
  <2>2. Writes(c) /\ mux'[c].src = mux[c].src /\ mux'[c].aux = mux[c].aux
    BY <1>1, <2>1 DEF Writes
  <2>3. Program[at] # <<"internal", c>>
    BY <1>2
  <2>4. mux'[c].selected = mux[c].selected
    BY <2>2 DEF Writes
  <2>5. PlaceInv(c)'
    BY <2>1, <2>2, <2>3, <2>4, PlaceReturns
  <2> QED BY <1>2, <2>2, <2>5, PlacesKeep
<1>9. \/ Here("start", c, "enter") \/ Here("start", c, "parked") \/ Here("start", c, "aux")
      \/ Here("start", c, "switched") \/ Here("start", c, "enable")
  BY DEF ClkStart
<1> QED BY <1>3, <1>4, <1>5, <1>6, <1>7, <1>8, <1>9

LEMMA ClockCallsKeep ==
    ASSUME ClockInv, PllsFreed, ClockCalls PROVE ClockInv'
<1>1. \/ XoscStart \/ XoscStop
      \/ \E p \in Plls : PllStart(p) \/ PllStop(p)
      \/ \E c \in Clocks : ClkStart(c) \/ ClkStop(c)
      \/ \E c \in Glitchless : Internal(c)
  BY DEF ClockCalls
<1>2. ASSUME NEW c \in Clocks, ClkStart(c) PROVE ClockInv'
  BY <1>2, StartKeeps, OtherClockKeeps
<1>3. ASSUME NEW c \in Clocks, ClkStop(c) PROVE ClockInv'
  BY <1>3, OtherClockKeeps
<1> QED BY <1>1, <1>2, <1>3, XoscKeeps, PllKeeps, InternalKeeps

-----------------------------------------------------------------------------
\* A step that is not the program's leaves it at its place.
LEMMA PlaceUntouched ==
    ASSUME ClockInv, UNCHANGED <<at, line>>, NEW c \in Glitchless,
           mux'[c].src = mux[c].src, mux'[c].selected = mux[c].selected
    PROVE  PlaceInv(c)'
<1>1. (Internally(c, at))' <=> Internally(c, at)
  BY DEF Internally, InternalIn
<1> QED BY <1>1 DEF ClockInv, PlaceInv, Here, Parked

\* An oscillator that settles, a PLL that locks.
LEMMA SourceKeeps ==
    ASSUME ClockInv, XoscSettles \/ (\E p \in Plls : PllLocks(p)) PROVE ClockInv'
<1>1. UNCHANGED <<at, line, mux>>
  BY DEF XoscSettles, PllLocks, program
<1>2. DOMAIN xosc' = DOMAIN xosc /\ (xosc.stable => xosc'.stable)
  BY DEF XoscSettles, PllLocks, ClockInv, Shapes
<1>3. /\ DOMAIN pll' = Plls
      /\ \A q \in Plls : /\ {"lock", "post"} \subseteq DOMAIN pll'[q]
                         /\ PllRuns(q) => PllRuns(q)'
  <2>1. CASE XoscSettles
    BY <2>1 DEF XoscSettles, ClockInv, Shapes, PllRuns
  <2>2. ASSUME NEW p \in Plls, PllLocks(p) PROVE <1>3
    BY <2>2 DEF PllLocks, ClockInv, Shapes, PllRuns
  <2> QED BY <2>1, <2>2
<1>4. Shapes'
  BY <1>1, <1>2, <1>3 DEF ClockInv, Shapes
<1>5. SysRuns'
  BY <1>1, <1>2, <1>3, KeepsRunning, RefSelected DEF ClockInv, CpuClocked
<1>6. \A c \in Glitchless : PlaceInv(c)'
  BY <1>1, PlaceUntouched
<1> QED BY <1>1, <1>4, <1>5, <1>6 DEF ClockInv, CpuClocked, WritesInLog

\* A multiplexer changes over only to an input that runs.
LEMMA SwitchKeeps ==
    ASSUME ClockInv, NEW c \in Glitchless, MuxSwitches(c) PROVE ClockInv'
<1>1. /\ c \in Clocks /\ DOMAIN mux = Clocks
      /\ {"src", "aux", "selected"} \subseteq DOMAIN mux[c]
  BY DEF ClockInv, Shapes, Glitchless, Clocks
<1>2. /\ mux' = [mux EXCEPT ![c].selected = mux[c].src]
      /\ mux[c].selected # mux[c].src
      /\ RunsFrom(c, mux[c].src)
      /\ UNCHANGED <<at, line, xosc, pll>>
  BY DEF MuxSwitches, program
<1>3. /\ DOMAIN mux' = Clocks
      /\ \A d \in Clocks \ {c} : mux'[d] = mux[d]
      /\ {"src", "aux", "selected"} \subseteq DOMAIN mux'[c]
      /\ mux'[c].selected = mux[c].src /\ mux'[c].src = mux[c].src
      /\ mux'[c].aux = mux[c].aux
  BY <1>1, <1>2
<1>4. Shapes'
  <2>1. \A d \in Clocks : {"src", "aux", "selected"} \subseteq DOMAIN mux'[d]
    BY <1>1, <1>3 DEF ClockInv, Shapes
  <2> QED BY <1>2, <1>3, <2>1 DEF ClockInv, Shapes
<1>5. PlaceInv(c)'
  <2>1. PlaceInv(c) /\ ~Parked(c)
    BY <1>2 DEF ClockInv, Parked
  <2>2. (Internally(c, at))' <=> Internally(c, at)
    BY <1>2 DEF Internally, InternalIn
  <2> QED BY <1>2, <1>3, <2>1, <2>2 DEF PlaceInv, Here, Parked
<1>6. ASSUME NEW d \in Glitchless \ {c} PROVE PlaceInv(d)'
  <2>1. d \in Clocks \ {c}
    BY DEF Glitchless, Clocks
  <2>2. mux'[d] = mux[d]
    BY <1>3, <2>1
  <2> QED BY <1>2, <2>2, PlaceUntouched
<1>7. SysRuns'
  <2>1. \A s : SourceRuns(s)' <=> SourceRuns(s)
    BY <1>2 DEF SourceRuns, PllRuns
  <2>2. \A n : RefRunsFrom(n)' <=> RefRunsFrom(n)
    BY <1>2 DEF RefRunsFrom, PllRuns
  <2>3. CASE c = "ref"
    <3>1. RefRuns'
      BY <1>2, <1>3, <2>2, <2>3 DEF RunsFrom, RefRuns
    <3>2. mux'["sys"] = mux["sys"]
      BY <1>3, <2>3 DEF Clocks
    <3>3. SysRunsFrom(mux["sys"].selected)
      BY DEF ClockInv, CpuClocked, SysRuns
    <3> QED BY <2>1, <3>1, <3>2, <3>3 DEF SysRuns, SysRunsFrom
  <2>4. CASE c = "sys"
    <3>1. SysRunsFrom(mux["sys"].src)
      BY <1>2, <2>4 DEF RunsFrom
    <3>2. mux'["ref"] = mux["ref"]
      BY <1>3, <2>4 DEF Clocks
    <3>3. RefRuns' <=> RefRuns
      BY <2>2, <3>2 DEF RefRuns
    <3>4. mux'["sys"].selected = mux["sys"].src /\ mux'["sys"].aux = mux["sys"].aux
      BY <1>3, <2>4
    <3> QED BY <2>1, <3>1, <3>3, <3>4 DEF SysRuns, SysRunsFrom
  <2> QED BY <2>3, <2>4 DEF Glitchless
<1>8. \A d \in Glitchless : PlaceInv(d)'
  BY <1>5, <1>6
<1>9. WritesInLog'
  BY <1>2 DEF ClockInv, WritesInLog
<1> QED BY <1>4, <1>7, <1>8, <1>9 DEF ClockInv, CpuClocked

\* A reset of the core starts the program over, with the tree as it is.
LEMMA RestartKeeps ==
    ASSUME ClockInv, Restart PROVE ClockInv'
<1>1. at' = 1 /\ line' = "enter" /\ UNCHANGED <<xosc, pll, mux>>
  BY DEF Restart
<1>2. \A c : ~Internally(c, at)'
  BY <1>1 DEF Internally, InternalIn
<1>3. ASSUME NEW c \in Glitchless PROVE PlaceInv(c)'
  BY <1>1, <1>2 DEF ClockInv, PlaceInv, Here
<1>4. SysRuns'
  BY <1>1 DEF ClockInv, CpuClocked, SysRuns, SysRunsFrom, RefRuns, RefRunsFrom,
              SourceRuns, PllRuns
<1> QED BY <1>1, <1>3, <1>4 DEF ClockInv, CpuClocked, Shapes, WritesInLog

\* Nothing of the clock tree or the program's place changes.
LEMMA StutterKeeps ==
    ASSUME ClockInv, UNCHANGED <<at, line, xosc, pll, mux>> PROVE ClockInv'
<1>1. \A c \in Glitchless : PlaceInv(c)'
  BY PlaceUntouched
<1>2. SysRuns'
  BY DEF ClockInv, CpuClocked, SysRuns, SysRunsFrom, RefRuns, RefRunsFrom,
         SourceRuns, PllRuns
<1> QED BY <1>1, <1>2 DEF ClockInv, CpuClocked, Shapes, WritesInLog

\* The calls of the rest of the board, and its log.
LEMMA BoardCallsKeep ==
    ASSUME ClockInv, PllsFreed, Processor PROVE ClockInv'
<1>1. CASE ClockCalls
  BY <1>1, ClockCallsKeep
<1>2. CASE ~ClockCalls
  <2>1. UNCHANGED <<xosc, pll, mux>>
    BY <1>2 DEF Processor
  <2>2. ASSUME NEW r, NEW u, NEW l, Here(r, u, l), r \notin {"internal", "start"}
        PROVE  \A c \in Glitchless : Program[at] \notin {<<"internal", c>>, <<"start", c>>}
    BY <2>2 DEF Here
  <2>3. CASE \E b \in Blocks \ Plls : ResetBlock(b)
    <3> PICK b \in Blocks \ Plls : ResetBlock(b)
      BY <2>3
    <3>1. Proceeds
      BY DEF ResetBlock, Proceeds
    <3>2. \E l : Here("reset", b, l)
      BY DEF ResetBlock
    <3> QED BY <2>1, <2>2, <3>1, <3>2, QuietKeeps
  <2>4. CASE \E p \in Pins : Configure(p) \/ Set(p) \/ Toggle(p)
    <3> PICK p \in Pins : Configure(p) \/ Set(p) \/ Toggle(p)
      BY <2>4
    <3>1. Proceeds
      BY DEF Configure, Set, Toggle, Proceeds
    <3>2. \E r \in {"configure", "set", "clear", "toggle"} : Here(r, p, "enter")
      BY DEF Configure, Set, Toggle
    <3> QED BY <2>1, <2>2, <3>1, <3>2, QuietKeeps
  <2>5. CASE \E step \in UartSteps : SetUart(step)
    <3> PICK step \in UartSteps : SetUart(step)
      BY <2>5
    <3>1. Proceeds /\ Here("uart0", step, "enter")
      BY DEF SetUart, Proceeds
    <3> QED BY <2>1, <2>2, <3>1, QuietKeeps
  <2>6. CASE SetLogSink
    <3>1. Proceeds /\ Here("set_log_sink", "uart0", "enter")
      BY <2>6 DEF SetLogSink, Proceeds
    <3> QED BY <2>1, <2>2, <3>1, QuietKeeps
  <2>7. CASE \E n \in Lengths : LogBegin(n)
    <3> PICK n \in Lengths : LogBegin(n)
      BY <2>7
    <3>1. Here("log", n, "enter") /\ (Return \/ GoTo("write"))
      BY DEF LogBegin
    <3>2. Proceeds
      BY <3>1 DEF Proceeds, GoTo, Here
    <3> QED BY <2>1, <2>2, <3>1, <3>2, QuietKeeps
  <2>8. CASE WriteByte
    BY <2>1, <2>8, StutterKeeps DEF WriteByte, program
  <2>9. CASE LogEnd
    <3>1. Return /\ Program[at][1] = "log"
      BY <2>9 DEF LogEnd, ClockInv, WritesInLog
    <3> QED BY <2>1, <3>1, QuietKeeps DEF Proceeds
  <2> QED BY <1>2, <2>3, <2>4, <2>5, <2>6, <2>7, <2>8, <2>9 DEF Processor, Log
<1> QED BY <1>1, <1>2

-----------------------------------------------------------------------------
LEMMA ClockInvInit == Init => ClockInv
<1> SUFFICES ASSUME Init PROVE ClockInv
  OBVIOUS
<1>1. /\ at = 1 /\ line = "enter" /\ xosc = [enable |-> 0, stable |-> FALSE]
      /\ pll = [p \in Plls |-> PllOff(TRUE)]
      /\ mux = [c \in Clocks |-> [src |-> 0, aux |-> 0, selected |-> 0,
                                  enable |-> FALSE, div |-> 256]]
  BY DEF Init, TreeInit
<1>2. Shapes
  BY <1>1 DEF Shapes, PllOff
<1>3. \A c \in Glitchless : Parked(c)
  BY <1>1 DEF Glitchless, Clocks, Parked
<1>4. \A c \in Glitchless : PlaceInv(c)
  BY <1>1, <1>3 DEF PlaceInv, Parked, Here
<1>5. SysRuns
  BY <1>3, ParkedRuns DEF Parked, Glitchless
<1> QED BY <1>1, <1>2, <1>4, <1>5 DEF ClockInv, WritesInLog, CpuClocked

LEMMA ClockInvNext == ClockInv /\ PllsFreed /\ [Next]_vars => ClockInv'
<1> SUFFICES ASSUME ClockInv, PllsFreed, [Next]_vars PROVE ClockInv'
  OBVIOUS
<1>1. CASE Compile
  BY <1>1, StutterKeeps DEF Compile, program
<1>2. CASE Processor
  BY <1>2, BoardCallsKeep
<1>3. CASE UartSends
  BY <1>3, StutterKeeps DEF UartSends, tree, program
<1>4. CASE RestartCore
  BY <1>4, RestartKeeps DEF RestartCore
<1>5. CASE Hardware
  BY <1>5, SourceKeeps, SwitchKeeps DEF Hardware
<1>6. CASE UNCHANGED vars
  BY <1>6, StutterKeeps DEF vars, tree, program
<1> QED BY <1>1, <1>2, <1>3, <1>4, <1>5, <1>6 DEF Next

\* The processor never loses its clock, whatever the clocks are attached to,
\* however the hardware takes its time and wherever the core is reset, in every
\* program that frees the PLLs before it touches them
\* (drivers/clk/rp2-clk.cpp:37-157, drivers/clk/rp2-pll.cpp).
THEOREM ProcessorKeepsItsClock == PllsFreed => (Spec => []CpuClocked)
<1> SUFFICES ASSUME PllsFreed PROVE Spec => []CpuClocked
  OBVIOUS
<1>1. ClockInv => CpuClocked
  BY DEF ClockInv
<1>2. ClockInv /\ [Next]_vars => ClockInv'
  BY ClockInvNext
<1> QED BY <1>1, <1>2, ClockInvInit, PTL DEF Spec

-----------------------------------------------------------------------------
(***************************************************************************)
(* The programs the theorem is about: hw_initialize, and what is put       *)
(* together from pieces that free the PLLs.                                *)
(***************************************************************************)
LEMMA FreesConcat ==
    ASSUME NEW S, NEW s \in Seq(S), NEW t \in Seq(S), Frees(s), Frees(t)
    PROVE  s \o t \in Seq(S) /\ Frees(s \o t)
<1> DEFINE u == s \o t
           m == Len(s)
<1>1. /\ u \in Seq(S) /\ Len(u) = m + Len(t) /\ m \in Nat /\ Len(t) \in Nat
      /\ \A i \in 1 .. m : u[i] = s[i]
      /\ \A i \in 1 .. Len(t) : u[m + i] = t[i]
  <2>1. u \in Seq(S) /\ Len(u) = m + Len(t) /\ m \in Nat /\ Len(t) \in Nat
    OBVIOUS
  <2>2. ASSUME NEW i \in 1 .. m PROVE u[i] = s[i]
    OBVIOUS
  <2>3. ASSUME NEW i \in 1 .. Len(t) PROVE u[m + i] = t[i]
    OBVIOUS
  <2> QED BY <2>1, <2>2, <2>3
<1> HIDE DEF u, m
<1>2. SUFFICES ASSUME NEW i \in 1 .. Len(u), NEW p \in Plls,
                      u[i] \in {<<"start", p>>, <<"stop", p>>}, NEW c \in Glitchless
               PROVE  InternalIn(u, c, i)
  <2>1. Frees(u)
    BY <1>2 DEF Frees
  <2> QED BY <1>1, <2>1 DEF u
<1>3. CASE i \in 1 .. m
  <2>1. InternalIn(s, c, i)
    BY <1>1, <1>2, <1>3 DEF Frees, m
  <2>2. PICK j \in 1 .. i - 1 : /\ s[j] = <<"internal", c>>
                                /\ \A k \in j + 1 .. i : s[k] # <<"start", c>>
    BY <2>1 DEF InternalIn
  <2>3. j \in 1 .. m /\ \A k \in j + 1 .. i : k \in 1 .. m
    BY <1>1, <1>3
  <2>4. \A k \in 1 .. m : u[k] = s[k]
    BY <1>1
  <2>5. u[j] = <<"internal", c>>
    BY <2>2, <2>3, <2>4
  <2>6. \A k \in j + 1 .. i : u[k] # <<"start", c>>
    BY <2>2, <2>3, <2>4
  <2> QED BY <2>5, <2>6 DEF InternalIn
<1>4. CASE i \notin 1 .. m
  <2> DEFINE n == i - m
  <2>1. n \in 1 .. Len(t) /\ i = m + n
    BY <1>1, <1>4
  <2> HIDE DEF n
  <2>2. t[n] = u[i]
    BY <1>1, <2>1
  <2>3. InternalIn(t, c, n)
    BY <1>2, <2>1, <2>2 DEF Frees
  <2>4. PICK j \in 1 .. n - 1 : /\ t[j] = <<"internal", c>>
                                /\ \A k \in j + 1 .. n : t[k] # <<"start", c>>
    BY <2>3 DEF InternalIn
  <2>5. m + j \in 1 .. i - 1 /\ u[m + j] = <<"internal", c>>
    BY <1>1, <2>1, <2>4
  <2>6. ASSUME NEW k \in m + j + 1 .. i PROVE u[k] # <<"start", c>>
    <3> DEFINE l == k - m
    <3>1. l \in j + 1 .. n /\ l \in 1 .. Len(t) /\ k = m + l
      BY <1>1, <2>1, <2>6
    <3> HIDE DEF l
    <3> QED BY <1>1, <2>4, <3>1
  <2> QED BY <2>5, <2>6 DEF InternalIn
<1> QED BY <1>3, <1>4

\* What hw_initialize calls, and the calls among these that touch no PLL.
Routines == {"internal", "start", "reset", "configure", "set", "uart0"}
Others == Clocks \cup {"xosc", "io_bank0", "pads_bank0", "uart0", "tx", "rx", "led"} \cup UartSteps
Calls == Routines \X (Others \cup Plls)
Quiet == Routines \X Others

LEMMA QuietFrees == \A s \in Seq(Quiet) : s \in Seq(Calls) /\ Frees(s)
<1> SUFFICES ASSUME NEW s \in Seq(Quiet) PROVE s \in Seq(Calls) /\ Frees(s)
  OBVIOUS
<1>1. Quiet \subseteq Calls
  BY DEF Quiet, Calls
<1>2. \A call \in Quiet, p \in Plls : call \notin {<<"start", p>>, <<"stop", p>>}
  BY DEF Quiet, Others, Plls, Clocks, Generic, UartSteps
<1>3. \A i \in 1 .. Len(s) : s[i] \in Quiet
  OBVIOUS
<1>4. Frees(s)
  BY <1>2, <1>3 DEF Frees
<1> HIDE DEF Quiet, Calls
<1> QED BY <1>1, <1>4

LEMMA WiderSeq == ASSUME NEW S, NEW T, S \subseteq T, NEW s \in Seq(S) PROVE s \in Seq(T)
OBVIOUS

LEMMA SeqElement == ASSUME NEW S, NEW s \in Seq(S), NEW i \in 1 .. Len(s) PROVE s[i] \in S
OBVIOUS

LEMMA ConcatParts ==
    ASSUME NEW S, NEW s \in Seq(S), NEW t \in Seq(S)
    PROVE  /\ s \o t \in Seq(S) /\ Len(s \o t) = Len(s) + Len(t)
           /\ \A i \in 1 .. Len(s) : (s \o t)[i] = s[i]
           /\ \A i \in 1 .. Len(t) : (s \o t)[Len(s) + i] = t[i]
OBVIOUS

\* The calls of start for a list of units.
LEMMA StartedCalls ==
    ASSUME NEW S, NEW units \in Seq(S)
    PROVE  /\ Started(units) \in Seq({"start"} \X S)
           /\ Len(Started(units)) = Len(units)
           /\ \A i \in 1 .. Len(units) : Started(units)[i] = <<"start", units[i]>>
BY DEF Started

\* The first half of hw_initialize.
LEMMA StartClocksFrees == StartClocks \in Seq(Calls) /\ Frees(StartClocks)
<1> DEFINE Sources == <<"xosc", "pll_sys", "pll_usb">>
           Units == <<"ref", "sys", "usb", "adc", "rtc", "peri">>
           Five == Preinit \o Started(Sources)
<1>1. /\ Sources \in Seq(Plls \cup {"xosc"}) /\ Len(Sources) = 3
      /\ Sources[1] = "xosc" /\ Sources[2] = "pll_sys" /\ Sources[3] = "pll_usb"
  <2>1. {"xosc", "pll_sys", "pll_usb"} \subseteq Plls \cup {"xosc"}
    BY DEF Plls
  <2>2. /\ Sources \in Seq({"xosc", "pll_sys", "pll_usb"}) /\ Len(Sources) = 3
        /\ Sources[1] = "xosc" /\ Sources[2] = "pll_sys" /\ Sources[3] = "pll_usb"
    OBVIOUS
  <2> HIDE DEF Sources
  <2> QED BY <2>1, <2>2, WiderSeq
<1>2. Units \in Seq(Others)
  <2>1. {"ref", "sys", "usb", "adc", "rtc", "peri"} \subseteq Others
    BY DEF Others, Clocks, Generic
  <2>2. Units \in Seq({"ref", "sys", "usb", "adc", "rtc", "peri"})
    OBVIOUS
  <2> HIDE DEF Units
  <2> QED BY <2>1, <2>2
<1>3. /\ Preinit \in Seq(Calls) /\ Len(Preinit) = 2
      /\ Preinit[1] = <<"internal", "ref">> /\ Preinit[2] = <<"internal", "sys">>
  <2>1. {<<"internal", "ref">>, <<"internal", "sys">>} \subseteq Calls
    BY DEF Calls, Routines, Others, Clocks
  <2>2. Preinit \in Seq({<<"internal", "ref">>, <<"internal", "sys">>})
    BY DEF Preinit
  <2>3. Preinit \in Seq(Calls)
    BY ONLY <2>1, <2>2, WiderSeq
  <2> QED BY <2>3 DEF Preinit
<1> HIDE DEF Sources, Units
<1>4. Five \in Seq(Calls) /\ Frees(Five)
  <2>1. /\ Started(Sources) \in Seq({"start"} \X (Plls \cup {"xosc"})) /\ Len(Started(Sources)) = 3
        /\ Started(Sources)[1] = <<"start", "xosc">>
        /\ Started(Sources)[2] = <<"start", "pll_sys">>
        /\ Started(Sources)[3] = <<"start", "pll_usb">>
    <3>1. \A i \in 1 .. 3 : Started(Sources)[i] = <<"start", Sources[i]>>
      BY <1>1, StartedCalls
    <3>2. Started(Sources) \in Seq({"start"} \X (Plls \cup {"xosc"}))
          /\ Len(Started(Sources)) = 3
      BY <1>1, StartedCalls
    <3> QED BY <1>1, <3>1, <3>2
  <2>2. Started(Sources) \in Seq(Calls)
    <3>1. {"start"} \X (Plls \cup {"xosc"}) \subseteq Calls
      BY DEF Calls, Routines, Others
    <3> QED BY <2>1, <3>1, WiderSeq
  <2>3. /\ Five \in Seq(Calls) /\ Len(Five) = 5
        /\ Five[1] = Preinit[1] /\ Five[2] = Preinit[2]
        /\ Five[3] = Started(Sources)[1] /\ Five[4] = Started(Sources)[2]
        /\ Five[5] = Started(Sources)[3]
    <3> HIDE DEF Five
    <3>1. /\ Five \in Seq(Calls) /\ Len(Five) = Len(Preinit) + Len(Started(Sources))
          /\ \A i \in 1 .. Len(Preinit) : Five[i] = Preinit[i]
          /\ \A i \in 1 .. Len(Started(Sources)) :
                 Five[Len(Preinit) + i] = Started(Sources)[i]
      <4> DEFINE third == Started(Sources)
      <4>1. Preinit \in Seq(Calls) /\ third \in Seq(Calls)
        BY <1>3, <2>2
      <4> HIDE DEF third
      <4>2. /\ Preinit \o third \in Seq(Calls)
            /\ Len(Preinit \o third) = Len(Preinit) + Len(third)
            /\ \A i \in 1 .. Len(Preinit) : (Preinit \o third)[i] = Preinit[i]
            /\ \A i \in 1 .. Len(third) : (Preinit \o third)[Len(Preinit) + i] = third[i]
        BY <4>1, ConcatParts
      <4> QED BY <4>2 DEF Five, third
    <3> QED BY <1>3, <2>1, <3>1
  <2> HIDE DEF Five
  <2>4. SUFFICES ASSUME NEW i \in 1 .. 5, NEW p \in Plls,
                        Five[i] \in {<<"start", p>>, <<"stop", p>>}, NEW c \in Glitchless
                 PROVE  InternalIn(Five, c, i)
    BY <2>3 DEF Frees
  <2>5. i \in {4, 5}
    <3>1. i \in {1, 2, 3, 4, 5}
      OBVIOUS
    <3>2. i # 1 /\ i # 2
      BY <1>3, <2>3, <2>4
    <3>3. i # 3
      BY <2>1, <2>3, <2>4 DEF Plls
    <3> QED BY <3>1, <3>2, <3>3
  <2>6. \A k \in {1, 2, 3, 4, 5} : Five[k] # <<"start", c>>
    BY <1>3, <2>1, <2>3 DEF Glitchless
  <2>7. \A k \in 1 .. 5 : Five[k] # <<"start", c>>
    BY <2>6
  <2>8. \E j \in 1 .. 2 : Five[j] = <<"internal", c>>
    BY <1>3, <2>3 DEF Glitchless
  <2> QED BY <2>5, <2>7, <2>8 DEF InternalIn
<1>5. Started(Units) \in Seq(Quiet)
  <2>1. Started(Units) \in Seq({"start"} \X Others)
    BY <1>2, StartedCalls
  <2>2. {"start"} \X Others \subseteq Quiet
    BY DEF Quiet, Routines
  <2> QED BY <2>1, <2>2
<1>6. Started(Units) \in Seq(Calls) /\ Frees(Started(Units))
  BY <1>5, QuietFrees
<1>7. StartClocks = Five \o Started(Units)
  BY DEF StartClocks, Units, Sources
<1> HIDE DEF Five
<1> QED BY <1>4, <1>6, <1>7, FreesConcat

\* The rest of it makes calls of the other blocks only.
LEMMA HwInitializeFrees == Frees(HwInitialize)
<1> DEFINE Led == <<<<"configure", "led">>, <<"set", "led">>>>
           Uart == <<<<"reset", "uart0">>, <<"configure", "tx">>, <<"configure", "rx">>>>
           Steps == <<"off", "divider", "line_control", "on">>
           Writing == [i \in 1 .. 4 |-> <<"uart0", Steps[i]>>]
<1>1. GpioInit \in Seq(Quiet)
  <2>1. {<<"reset", "io_bank0">>, <<"reset", "pads_bank0">>} \subseteq Quiet
    BY DEF Quiet, Routines, Others
  <2>2. GpioInit \in Seq({<<"reset", "io_bank0">>, <<"reset", "pads_bank0">>})
    BY DEF GpioInit
  <2> QED BY ONLY <2>1, <2>2, WiderSeq
<1>2. Led \in Seq(Quiet)
  <2>1. {<<"configure", "led">>, <<"set", "led">>} \subseteq Quiet
    BY DEF Quiet, Routines, Others
  <2>2. Led \in Seq({<<"configure", "led">>, <<"set", "led">>})
    OBVIOUS
  <2> QED BY ONLY <2>1, <2>2, WiderSeq
<1>3. Uart \in Seq(Quiet)
  <2> DEFINE Three == {<<"reset", "uart0">>, <<"configure", "tx">>, <<"configure", "rx">>}
  <2>1. Three \subseteq Quiet
    BY DEF Quiet, Routines, Others
  <2>2. Uart \in Seq(Three)
    OBVIOUS
  <2> HIDE DEF Three, Uart
  <2> QED BY ONLY <2>1, <2>2, WiderSeq
<1>4. Writing \in Seq(Quiet)
  <2>1. Steps \in Seq(UartSteps) /\ Len(Steps) = 4
    BY DEF UartSteps
  <2> HIDE DEF Steps
  <2>2. ASSUME NEW i \in 1 .. 4 PROVE Writing[i] \in {"uart0"} \X UartSteps
    <3>1. i \in 1 .. Len(Steps)
      BY <2>1
    <3>2. Steps[i] \in UartSteps
      BY ONLY <2>1, <3>1, SeqElement
    <3> QED BY <3>2
  <2>3. {"uart0"} \X UartSteps \subseteq Quiet
    BY DEF Quiet, Routines, Others
  <2>4. \A i \in 1 .. 4 : Writing[i] \in Quiet
    BY <2>2, <2>3
  <2> HIDE DEF Quiet
  <2> QED BY <2>4
<1>5. HwInitialize = ((StartClocks \o GpioInit) \o Led) \o (Uart \o Writing)
  BY DEF HwInitialize, UartConfigure
<1> HIDE DEF Led, Uart, Writing
<1>6. /\ GpioInit \in Seq(Calls) /\ Frees(GpioInit)
      /\ Led \in Seq(Calls) /\ Frees(Led)
      /\ Uart \in Seq(Calls) /\ Frees(Uart)
      /\ Writing \in Seq(Calls) /\ Frees(Writing)
  BY <1>1, <1>2, <1>3, <1>4, QuietFrees
<1>7. StartClocks \o GpioInit \in Seq(Calls) /\ Frees(StartClocks \o GpioInit)
  BY <1>6, StartClocksFrees, FreesConcat
<1>8. (StartClocks \o GpioInit) \o Led \in Seq(Calls) /\ Frees((StartClocks \o GpioInit) \o Led)
  BY <1>6, <1>7, FreesConcat
<1>9. Uart \o Writing \in Seq(Calls) /\ Frees(Uart \o Writing)
  BY <1>6, FreesConcat
<1> QED BY <1>5, <1>8, <1>9, FreesConcat

\* hw_initialize is such a program: on a board that makes its calls, in that
\* order, the processor is always clocked, wherever the core is reset
\* (hw.hpp:57-79).
THEOREM HwInitializeKeepsTheClock == Program = HwInitialize => (Spec => []CpuClocked)
BY HwInitializeFrees, ProcessorKeepsItsClock DEF PllsFreed

-----------------------------------------------------------------------------
(***************************************************************************)
(* What start() has started runs.  A unit is up in a program if it has     *)
(* been started and neither stopped nor put on its first input since.      *)
(***************************************************************************)
UpIn(s, u, i) ==
    /\ \E j \in 1 .. i - 1 : s[j] = <<"start", u>>
    /\ \A j \in 1 .. Len(s) :
           j <= i /\ s[j] \in {<<"stop", u>>, <<"internal", u>>} =>
               \E k \in j .. i - 1 : s[k] = <<"start", u>>

\* What a clock without a multiplexer of its own kind runs from.
Source(c) == AuxInput(c, Aux(c))

\* A program that starts nothing again that is up, and keeps the source of a clock
\* up for as long as the clock is.
Once(s) == \A i \in 1 .. Len(s), u \in Clocks \cup Plls : s[i] = <<"start", u>> => ~UpIn(s, u, i)
Sourced(s) ==
    \A i \in 1 .. Len(s) + 1, c \in Clocks \ Glitchless :
        UpIn(s, c, i) => UpIn(s, Source(c), i)
Orderly(s) == Once(s) /\ Sourced(s)

Units == Clocks \cup Plls \cup {"xosc"}
UpAt(u, i) == UpIn(Program, u, i)

\* The unit u does what start(u) is for; and what has been done of that when start(u)
\* is at line l.
Serves(u) ==
    /\ u \in Glitchless => mux[u].src = Src(u) /\ mux[u].selected = Src(u)
    /\ u \in Clocks \ Glitchless => mux[u].enable /\ mux[u].aux = Aux(u)
    /\ u \in Plls => PllRuns(u)
    /\ u = "xosc" => xosc.stable
Ready(u, l) ==
    /\ u \in Glitchless =>
           /\ l = "switched" => mux[u].src = Src(u)
           /\ l = "enable" => mux[u].src = Src(u) /\ mux[u].selected = Src(u)
    /\ u \in Clocks \ Glitchless => (l \in {"switched", "enable"} => mux[u].aux = Aux(u))
    /\ u \in Plls => /\ l \in {"program", "lock", "post"} => ~pll[u].held
                     /\ l = "post" => pll[u].lock

MuxFields == {"src", "aux", "selected", "enable"}
PllFields == {"held", "lock", "post"}
Registers ==
    /\ DOMAIN mux = Clocks /\ \A c \in Clocks : MuxFields \subseteq DOMAIN mux[c]
    /\ DOMAIN pll = Plls /\ \A p \in Plls : PllFields \subseteq DOMAIN pll[p]
    /\ "stable" \in DOMAIN xosc
    /\ DOMAIN triggered = Blocks
    /\ at \in 1 .. Len(Program) + 1

UnitInv(u) ==
    /\ UpAt(u, at) => Serves(u)
    /\ at \in 1 .. Len(Program) /\ Program[at] = <<"start", u>> => Ready(u, line)
Freed == \A p \in Plls : triggered[p] => ~pll[p].held
InLog == line = "write" => at \in 1 .. Len(Program) /\ Program[at][1] = "log"
StartedInv == Registers /\ InLog /\ Freed /\ \A u \in Units : UnitInv(u)

\* Nothing of the unit u that matters is written.
Kept(u) ==
    /\ u \in Clocks => /\ mux'[u].src = mux[u].src /\ mux'[u].selected = mux[u].selected
                       /\ mux'[u].aux = mux[u].aux /\ mux'[u].enable = mux[u].enable
    /\ u \in Plls => /\ pll'[u].held = pll[u].held /\ pll'[u].lock = pll[u].lock
                     /\ pll'[u].post = pll[u].post
    /\ u = "xosc" => xosc'.stable = xosc.stable

\* The names of the units are apart.
LEMMA UnitKinds ==
    /\ Glitchless \subseteq Clocks /\ Clocks \subseteq Units /\ Plls \subseteq Units
    /\ "xosc" \in Units /\ Clocks \cap Plls = {} /\ "xosc" \notin Clocks \cup Plls
    /\ Plls \subseteq Blocks
BY DEF Glitchless, Clocks, Generic, Plls, Units, Blocks

LEMMA KeptServes ==
    ASSUME NEW u \in Units, Kept(u)
    PROVE  /\ Serves(u) => Serves(u)'
           /\ \A l : Ready(u, l) => Ready(u, l)'
<1>1. Serves(u) => Serves(u)'
  BY UnitKinds DEF Kept, Serves, PllRuns
<1>2. ASSUME NEW l, Ready(u, l) PROVE Ready(u, l)'
  BY <1>2, UnitKinds DEF Kept, Ready
<1> QED BY <1>1, <1>2

-----------------------------------------------------------------------------
\* Moving on to the next call: what is up there was up, or has just been started.
LEMMA UpNext ==
    ASSUME NEW u, NEW i \in 1 .. Len(Program), UpAt(u, i + 1), Program[i] # <<"start", u>>
    PROVE  UpAt(u, i) /\ Program[i] \notin {<<"stop", u>>, <<"internal", u>>}
<1>0. Len(Program) \in Nat
  BY ClocksAssumption
<1>1. \E j \in 1 .. i - 1 : Program[j] = <<"start", u>>
  <2>1. PICK j \in 1 .. i : Program[j] = <<"start", u>>
    BY <1>0 DEF UpAt, UpIn
  <2> QED BY <2>1
<1>2. ASSUME NEW j \in 1 .. Len(Program), j <= i,
             Program[j] \in {<<"stop", u>>, <<"internal", u>>}
      PROVE  \E k \in j .. i - 1 : Program[k] = <<"start", u>>
  <2>1. j <= i + 1
    BY <1>0, <1>2
  <2>2. \E k \in j .. (i + 1) - 1 : Program[k] = <<"start", u>>
    BY <1>2, <2>1 DEF UpAt, UpIn
  <2>3. PICK k \in j .. i : Program[k] = <<"start", u>>
    BY <1>0, <2>2
  <2>4. k # i
    BY <2>3
  <2> QED BY <1>0, <2>3, <2>4
<1>3. Program[i] \notin {<<"stop", u>>, <<"internal", u>>}
  <2> SUFFICES ASSUME Program[i] \in {<<"stop", u>>, <<"internal", u>>} PROVE FALSE
    OBVIOUS
  <2>1. \E k \in i .. i - 1 : Program[k] = <<"start", u>>
    BY <1>0, <1>2
  <2> QED BY <1>0, <2>1
<1> QED BY <1>1, <1>2, <1>3 DEF UpAt, UpIn

LEMMA UnitReturns ==
    ASSUME NEW u \in Units, UnitInv(u), at \in 1 .. Len(Program), Return,
           Program[at] \notin {<<"stop", u>>, <<"internal", u>>} /\ Serves(u) => Serves(u)',
           Program[at] = <<"start", u>> => Serves(u)'
    PROVE  UnitInv(u)'
<1>1. at' = at + 1 /\ line' = "enter"
  BY DEF Return
<1>2. UpAt(u, at)' => UpAt(u, at + 1)
  BY <1>1 DEF UpAt, UpIn
<1>3. UpAt(u, at)' => Serves(u)'
  BY <1>2, UpNext DEF UnitInv
<1>4. Ready(u, line)'
  BY <1>1 DEF Ready
<1> QED BY <1>3, <1>4 DEF UnitInv

LEMMA UnitStays ==
    ASSUME NEW u \in Units, UnitInv(u), at' = at,
           UpAt(u, at) /\ Serves(u) => Serves(u)',
           at \in 1 .. Len(Program) /\ Program[at] = <<"start", u>> => Ready(u, line)'
    PROVE  UnitInv(u)'
<1>1. UpAt(u, at)' => UpAt(u, at)
  BY DEF UpAt, UpIn
<1> QED BY <1>1 DEF UnitInv

\* A call that concerns another unit goes on or returns.
LEMMA UnitElsewhere ==
    ASSUME NEW u \in Units, UnitInv(u), at \in 1 .. Len(Program), Proceeds, Kept(u),
           Program[at] # <<"start", u>>
    PROVE  UnitInv(u)'
<1>1. Serves(u) => Serves(u)'
  BY KeptServes
<1> QED BY <1>1, UnitReturns, UnitStays DEF Proceeds

\* A step of a call for the unit u.
LEMMA UnitStep ==
    ASSUME StartedInv, NEW u \in Units, Proceeds, at \in 1 .. Len(Program),
           Program[at] \in {<<"start", u>>, <<"stop", u>>, <<"internal", u>>},
           \A v \in Units \ {u} : Kept(v),
           UnitInv(u)', Freed',
           DOMAIN mux' = Clocks, \A c \in Clocks : MuxFields \subseteq DOMAIN mux'[c],
           DOMAIN pll' = Plls, \A p \in Plls : PllFields \subseteq DOMAIN pll'[p],
           "stable" \in DOMAIN xosc', DOMAIN triggered' = Blocks
    PROVE  StartedInv'
<1>1. \A v \in Units \ {u} : UnitInv(v)'
  <2> SUFFICES ASSUME NEW v \in Units \ {u} PROVE UnitInv(v)'
    OBVIOUS
  <2>1. Program[at] # <<"start", v>>
    OBVIOUS
  <2> QED BY <2>1, UnitElsewhere DEF StartedInv
<1>2. at' \in 1 .. Len(Program) + 1
  BY ClocksAssumption DEF Proceeds, Return
<1>3. InLog'
  BY DEF Proceeds, Return, InLog
<1> QED BY <1>1, <1>2, <1>3 DEF StartedInv, Registers

\* What can only be a call for another block.
LEMMA QuietStep ==
    ASSUME StartedInv, UNCHANGED <<xosc, pll, mux>>, Proceeds, at \in 1 .. Len(Program),
           \A u : Program[at] # <<"start", u>>,
           Freed', DOMAIN triggered' = Blocks
    PROVE  StartedInv'
<1>1. \A u \in Units : UnitInv(u)'
  BY UnitElsewhere DEF StartedInv, Kept
<1>2. at' \in 1 .. Len(Program) + 1
  BY ClocksAssumption DEF Proceeds, Return
<1>3. InLog'
  BY DEF Proceeds, Return, InLog
<1> QED BY <1>1, <1>2, <1>3 DEF StartedInv, Registers

\* A step that is not the program's leaves each unit as it is, or makes it run.
LEMMA StandingStep ==
    ASSUME StartedInv, UNCHANGED <<at, line, triggered>>, Registers', Freed',
           \A u \in Units : /\ Serves(u) => Serves(u)'
                            /\ \A l : Ready(u, l) => Ready(u, l)'
    PROVE  StartedInv'
<1>1. ASSUME NEW u \in Units PROVE UnitInv(u)'
  <2>1. Program[at] = <<"start", u>> /\ at \in 1 .. Len(Program) => Ready(u, line)'
    BY DEF StartedInv, UnitInv
  <2> QED BY <2>1, UnitStays DEF StartedInv
<1>2. InLog'
  BY DEF StartedInv, InLog
<1> QED BY <1>1, <1>2 DEF StartedInv

-----------------------------------------------------------------------------
LEMMA PlaceOf ==
    ASSUME StartedInv, NEW r, NEW u, NEW l, Here(r, u, l)
    PROVE  at \in 1 .. Len(Program) /\ Program[at] = <<r, u>> /\ line = l
BY ClocksAssumption DEF StartedInv, Registers, Here

LEMMA XoscStep == ASSUME StartedInv, XoscStart \/ XoscStop PROVE StartedInv'
<1>1. /\ at \in 1 .. Len(Program) /\ Program[at] \in {<<"start", "xosc">>, <<"stop", "xosc">>}
      /\ UNCHANGED <<pll, mux, triggered>>
  BY PlaceOf DEF XoscStart, XoscStop, GoTo, Return
<1>2. Proceeds
  BY DEF XoscStart, XoscStop, Proceeds, GoTo
<1>3. DOMAIN xosc' = DOMAIN xosc /\ xosc'.stable = xosc.stable
  BY DEF XoscStart, XoscStop, StartedInv, Registers
<1>4. Serves("xosc") => Serves("xosc")'
  BY <1>3, UnitKinds DEF Serves
<1>5. UnitInv("xosc")'
  <2>1. \A l : Ready("xosc", l)
    BY UnitKinds DEF Ready
  <2>2. \A l : Ready("xosc", l)'
    BY UnitKinds DEF Ready
  <2>3. UnitInv("xosc") /\ "xosc" \in Units
    BY UnitKinds DEF StartedInv
  <2>4. CASE at' = at
    BY <1>4, <2>2, <2>3, <2>4, UnitStays
  <2>5. CASE Return
    <3>1. Program[at] = <<"start", "xosc">> => Serves("xosc")'
      <4>1. ASSUME Program[at] = <<"start", "xosc">> PROVE xosc.stable
        <5>1. ~XoscStop
          BY <4>1 DEF XoscStop, Here
        <5> QED BY <2>5, <5>1, <1>1, ClocksAssumption DEF XoscStart, Return, GoTo
      <4> QED BY <1>3, <4>1, UnitKinds DEF Serves
    <3> QED BY <1>1, <1>4, <2>3, <2>5, <3>1, UnitReturns
  <2> QED BY <1>2, <2>4, <2>5 DEF Proceeds
<1>6. \A v \in Units \ {"xosc"} : Kept(v)
  BY <1>1 DEF Kept
<1>7. /\ Freed' /\ DOMAIN mux' = Clocks /\ \A c \in Clocks : MuxFields \subseteq DOMAIN mux'[c]
      /\ DOMAIN pll' = Plls /\ \A p \in Plls : PllFields \subseteq DOMAIN pll'[p]
      /\ "stable" \in DOMAIN xosc' /\ DOMAIN triggered' = Blocks
  BY <1>1, <1>3 DEF StartedInv, Registers, Freed
<1> QED BY <1>1, <1>2, <1>5, <1>6, <1>7, UnitKinds, UnitStep

\* A step of start or stop of the PLL p.
LEMMA PllWritten ==
    ASSUME StartedInv, NEW p \in Plls, Proceeds, at \in 1 .. Len(Program),
           Program[at] \in {<<"start", p>>, <<"stop", p>>},
           UNCHANGED <<xosc, mux>>,
           DOMAIN pll' = Plls, \A q \in Plls \ {p} : pll'[q] = pll[q],
           PllFields \subseteq DOMAIN pll'[p],
           DOMAIN triggered' = Blocks,
           \A q \in Plls \ {p} : triggered'[q] = triggered[q],
           triggered'[p] => ~pll'[p].held,
           UnitInv(p)'
    PROVE  StartedInv'
<1>1. \A v \in Units \ {p} : Kept(v)
  BY DEF Kept
<1>2. Freed'
  BY DEF StartedInv, Freed
<1>3. /\ DOMAIN mux' = Clocks /\ \A c \in Clocks : MuxFields \subseteq DOMAIN mux'[c]
      /\ \A q \in Plls : PllFields \subseteq DOMAIN pll'[q] /\ "stable" \in DOMAIN xosc'
  BY DEF StartedInv, Registers
<1> QED BY <1>1, <1>2, <1>3, UnitKinds, UnitStep

\* The registers of p after a step of its start or stop.
LEMMA PllServes ==
    ASSUME NEW p \in Plls
    PROVE  /\ Serves(p) <=> pll[p].lock /\ pll[p].post
           /\ \A l : Ready(p, l) <=> /\ l \in {"program", "lock", "post"} => ~pll[p].held
                                     /\ l = "post" => pll[p].lock
<1>1. p \notin Clocks /\ p \notin Glitchless /\ p # "xosc"
  BY UnitKinds
<1> QED BY <1>1 DEF Serves, Ready, PllRuns

LEMMA PllServesNext ==
    ASSUME NEW p \in Plls
    PROVE  /\ Serves(p)' <=> pll'[p].lock /\ pll'[p].post
           /\ \A l : Ready(p, l)' <=> /\ l \in {"program", "lock", "post"} => ~pll'[p].held
                                      /\ l = "post" => pll'[p].lock
<1>1. p \notin Clocks /\ p \notin Glitchless /\ p # "xosc"
  BY UnitKinds
<1> QED BY <1>1 DEF Serves, Ready, PllRuns

LEMMA PllStep ==
    ASSUME StartedInv, Once(Program), NEW p \in Plls, PllStart(p) \/ PllStop(p)
    PROVE  StartedInv'
<1> DEFINE old == pll[p]
<1>0. /\ p \in Units /\ p \in Blocks /\ UnitInv(p) /\ UNCHANGED <<xosc, mux>>
      /\ DOMAIN pll = Plls /\ PllFields \subseteq DOMAIN old /\ DOMAIN triggered = Blocks
      /\ triggered[p] => ~old.held
  BY UnitKinds DEF StartedInv, Registers, Freed, PllStart, PllStop
<1>1. ASSUME Here("start", p, "enter"), PllStart(p) PROVE StartedInv'
  <2>1. /\ at \in 1 .. Len(Program) /\ Program[at] = <<"start", p>>
        /\ at' = at /\ line' = "program"
        /\ pll' = [pll EXCEPT ![p] = IF Untouched(p) THEN PllOff(FALSE) ELSE @]
        /\ triggered' = [triggered EXCEPT ![p] = TRUE]
    BY <1>1, PlaceOf DEF PllStart, Here
  <2>2. /\ DOMAIN pll' = Plls /\ \A q \in Plls \ {p} : pll'[q] = pll[q]
        /\ DOMAIN triggered' = Blocks
        /\ \A q \in Plls \ {p} : triggered'[q] = triggered[q]
    BY <1>0, <2>1, UnitKinds
  <2>3. pll'[p] = IF Untouched(p) THEN PllOff(FALSE) ELSE old
    BY <1>0, <2>1
  <2>4. PllFields \subseteq DOMAIN pll'[p] /\ ~pll'[p].held
    <3>1. CASE Untouched(p)
      BY <2>3, <3>1 DEF PllOff, PllFields
    <3>2. CASE ~Untouched(p)
      BY <1>0, <2>3, <3>2 DEF Untouched
    <3> QED BY <3>1, <3>2
  <2>5. ~UpAt(p, at)
    BY <2>1 DEF Once, UpAt
  <2>6. Ready(p, line)'
    BY <2>1, <2>4, PllServesNext DEF Ready
  <2>7. UnitInv(p)'
    BY <1>0, <2>1, <2>5, <2>6, UnitStays
  <2> QED BY <1>0, <2>1, <2>2, <2>4, <2>7, PllWritten DEF Proceeds
<1>2. ASSUME NEW new, Write(p, new), PllFields \subseteq DOMAIN new, new.held = old.held,
             UNCHANGED triggered, Proceeds, at \in 1 .. Len(Program),
             Program[at] \in {<<"start", p>>, <<"stop", p>>}
      PROVE  /\ pll'[p] = IF old.held THEN old ELSE new
             /\ UnitInv(p)' => StartedInv'
  <2>1. /\ DOMAIN pll' = Plls /\ \A q \in Plls \ {p} : pll'[q] = pll[q]
        /\ pll'[p] = IF old.held THEN old ELSE new
    BY <1>0, <1>2 DEF Write
  <2>2. PllFields \subseteq DOMAIN pll'[p] /\ (triggered'[p] => ~pll'[p].held)
    BY <1>0, <1>2, <2>1
  <2>3. DOMAIN triggered' = Blocks /\ \A q \in Plls \ {p} : triggered'[q] = triggered[q]
    BY <1>0, <1>2
  <2> QED BY <1>0, <1>2, <2>1, <2>2, <2>3, PllWritten
<1>3. ASSUME Here("start", p, "program"), PllStart(p) PROVE StartedInv'
  <2> DEFINE new == [old EXCEPT !.fbdiv = params[p].fbdiv, !.on = TRUE, !.post = FALSE]
  <2>1. /\ at \in 1 .. Len(Program) /\ Program[at] = <<"start", p>> /\ line = "program"
        /\ at' = at /\ line' = "lock" /\ UNCHANGED triggered /\ Write(p, new)
    BY <1>3, PlaceOf DEF PllStart, Here, GoTo
  <2>2. PllFields \subseteq DOMAIN new /\ new.held = old.held
    BY <1>0 DEF PllFields
  <2> HIDE DEF new
  <2>3. ~UpAt(p, at) /\ ~old.held
    BY <1>0, <2>1, PllServes DEF Once, UpAt, UnitInv
  <2>4. Proceeds
    BY <2>1 DEF Proceeds
  <2>5. pll'[p] = new
    BY <1>2, <2>1, <2>2, <2>3, <2>4
  <2>6. Ready(p, line)'
    BY <2>1, <2>2, <2>3, <2>5, PllServesNext DEF Ready
  <2>7. UnitInv(p)'
    BY <1>0, <2>1, <2>3, <2>6, UnitStays
  <2> QED BY <1>2, <2>1, <2>2, <2>4, <2>7
<1>4. ASSUME Here("start", p, "lock"), PllStart(p) PROVE StartedInv'
  <2>1. /\ at \in 1 .. Len(Program) /\ Program[at] = <<"start", p>> /\ line = "lock"
        /\ at' = at /\ line' = "post" /\ UNCHANGED <<triggered, pll>> /\ old.lock
    BY <1>4, PlaceOf DEF PllStart, Here, GoTo, Locked
  <2>2. ~UpAt(p, at) /\ ~old.held
    BY <1>0, <2>1, PllServes DEF Once, UpAt, UnitInv
  <2>3. Ready(p, line)'
    BY <2>1, <2>2, PllServesNext DEF Ready
  <2>4. UnitInv(p)'
    BY <1>0, <2>1, <2>2, <2>3, UnitStays
  <2> QED BY <1>0, <2>1, <2>4, PllWritten DEF Proceeds
<1>5. ASSUME Here("start", p, "post"), PllStart(p) PROVE StartedInv'
  <2> DEFINE new == [old EXCEPT !.post = TRUE,
                         !.postdiv = <<params[p].postdiv1, params[p].postdiv2>>]
  <2>1. /\ at \in 1 .. Len(Program) /\ Program[at] = <<"start", p>> /\ line = "post"
        /\ Return /\ Write(p, new)
    BY <1>5, PlaceOf DEF PllStart, Here
  <2>2. PllFields \subseteq DOMAIN new /\ new.held = old.held /\ new.lock = old.lock /\ new.post
    BY <1>0 DEF PllFields
  <2> HIDE DEF new
  <2>3. ~old.held /\ old.lock
    BY <1>0, <2>1, PllServes DEF UnitInv
  <2>4. Proceeds /\ UNCHANGED triggered
    BY <2>1 DEF Proceeds, Return
  <2>5. pll'[p] = new
    BY <1>2, <2>1, <2>2, <2>3, <2>4
  <2>6. Serves(p)'
    BY <2>2, <2>3, <2>5, PllServesNext
  <2>7. UnitInv(p)'
    BY <1>0, <2>1, <2>6, UnitReturns
  <2> QED BY <1>2, <2>1, <2>2, <2>4, <2>7
<1>6. ASSUME PllStop(p) PROVE StartedInv'
  <2> DEFINE new == [old EXCEPT !.on = FALSE, !.lock = FALSE, !.post = FALSE]
  <2>1. /\ at \in 1 .. Len(Program) /\ Program[at] = <<"stop", p>> /\ Return /\ Write(p, new)
    BY <1>6, PlaceOf DEF PllStop
  <2>2. PllFields \subseteq DOMAIN new /\ new.held = old.held
    BY <1>0 DEF PllFields
  <2> HIDE DEF new
  <2>3. Proceeds /\ UNCHANGED triggered
    BY <2>1 DEF Proceeds, Return
  <2>4. UnitInv(p)'
    BY <1>0, <2>1, UnitReturns
  <2> QED BY <1>2, <2>1, <2>2, <2>3, <2>4
<1>7. \/ Here("start", p, "enter") \/ Here("start", p, "program") \/ Here("start", p, "lock")
      \/ Here("start", p, "post") \/ PllStop(p)
  BY DEF PllStart
<1>8. Here("stop", p, "enter") => ~Here("start", p, "enter")
  BY DEF Here
<1> QED BY <1>1, <1>3, <1>4, <1>5, <1>6, <1>7

-----------------------------------------------------------------------------
\* What is being stopped is not up.
LEMMA StoppedDown ==
    ASSUME NEW u, NEW i \in 1 .. Len(Program), Program[i] \in {<<"stop", u>>, <<"internal", u>>}
    PROVE  ~UpAt(u, i)
<1>1. Len(Program) \in Nat
  BY ClocksAssumption
<1>2. i \in Nat /\ i <= i
  BY <1>1
<1> SUFFICES ASSUME UpAt(u, i) PROVE FALSE
  OBVIOUS
<1>3. \E k \in i .. i - 1 : Program[k] = <<"start", u>>
  BY <1>2 DEF UpAt, UpIn
<1> QED BY <1>2, <1>3

\* A step of a call for the clock c.
LEMMA ClockWritten ==
    ASSUME StartedInv, NEW c \in Clocks, Proceeds, at \in 1 .. Len(Program),
           Program[at] \in {<<"start", c>>, <<"stop", c>>, <<"internal", c>>},
           UNCHANGED <<xosc, pll, triggered>>,
           DOMAIN mux' = Clocks, \A d \in Clocks \ {c} : mux'[d] = mux[d],
           MuxFields \subseteq DOMAIN mux'[c],
           UnitInv(c)'
    PROVE  StartedInv'
<1>1. \A v \in Units \ {c} : Kept(v)
  BY DEF Kept
<1>2. Freed' /\ \A d \in Clocks : MuxFields \subseteq DOMAIN mux'[d]
  BY DEF StartedInv, Registers, Freed
<1>3. /\ DOMAIN pll' = Plls /\ \A q \in Plls : PllFields \subseteq DOMAIN pll'[q]
      /\ "stable" \in DOMAIN xosc' /\ DOMAIN triggered' = Blocks
  BY DEF StartedInv, Registers
<1> QED BY <1>1, <1>2, <1>3, UnitKinds, UnitStep

\* The registers of c, and what they say.
LEMMA ClockServes ==
    ASSUME NEW c \in Clocks
    PROVE  /\ c \in Glitchless =>
                  /\ Serves(c) <=> mux[c].src = Src(c) /\ mux[c].selected = Src(c)
                  /\ \A l : Ready(c, l) <=>
                         /\ l = "switched" => mux[c].src = Src(c)
                         /\ l = "enable" => mux[c].src = Src(c) /\ mux[c].selected = Src(c)
           /\ c \notin Glitchless =>
                  /\ Serves(c) <=> mux[c].enable /\ mux[c].aux = Aux(c)
                  /\ \A l : Ready(c, l) <=> (l \in {"switched", "enable"} => mux[c].aux = Aux(c))
<1>1. c \notin Plls /\ c # "xosc"
  BY UnitKinds
<1> QED BY <1>1 DEF Serves, Ready

LEMMA ClockServesNext ==
    ASSUME NEW c \in Clocks
    PROVE  /\ c \in Glitchless =>
                  /\ Serves(c)' <=> mux'[c].src = Src(c) /\ mux'[c].selected = Src(c)
                  /\ \A l : Ready(c, l)' <=>
                         /\ l = "switched" => mux'[c].src = Src(c)
                         /\ l = "enable" => mux'[c].src = Src(c) /\ mux'[c].selected = Src(c)
           /\ c \notin Glitchless =>
                  /\ Serves(c)' <=> mux'[c].enable /\ mux'[c].aux = Aux(c)
                  /\ \A l : Ready(c, l)' <=> (l \in {"switched", "enable"} => mux'[c].aux = Aux(c))
<1>1. c \notin Plls /\ c # "xosc"
  BY UnitKinds
<1> QED BY <1>1 DEF Serves, Ready

\* A step that stays in start(c).
LEMMA StartGoesOn ==
    ASSUME StartedInv, Once(Program), NEW c \in Clocks, at \in 1 .. Len(Program),
           Program[at] = <<"start", c>>, at' = at, line' # "write",
           UNCHANGED <<xosc, pll, triggered>>,
           DOMAIN mux' = Clocks, \A d \in Clocks \ {c} : mux'[d] = mux[d],
           MuxFields \subseteq DOMAIN mux'[c],
           Ready(c, line)'
    PROVE  StartedInv'
<1>1. ~UpAt(c, at) /\ c \in Units /\ UnitInv(c)
  BY UnitKinds DEF Once, UpAt, StartedInv
<1>2. UnitInv(c)'
  BY <1>1, UnitStays
<1> QED BY <1>2, ClockWritten DEF Proceeds

LEMMA ClockStep ==
    ASSUME StartedInv, Once(Program), NEW c \in Clocks, ClkStart(c) \/ ClkStop(c)
    PROVE  StartedInv'
<1>0. /\ c \in Units /\ UnitInv(c) /\ UNCHANGED <<xosc, pll, triggered>>
      /\ DOMAIN mux = Clocks /\ MuxFields \subseteq DOMAIN mux[c]
  BY UnitKinds DEF StartedInv, Registers, ClkStart, ClkStop, GoTo, Return
<1>1. ASSUME Here("start", c, "enter"), ClkStart(c) PROVE StartedInv'
  <2>1. /\ at \in 1 .. Len(Program) /\ Program[at] = <<"start", c>>
        /\ at' = at /\ line' \in {"parked", "aux"}
    BY <1>1, PlaceOf DEF ClkStart, Here, GoTo
  <2>2. \/ mux' = [mux EXCEPT ![c].div = DivBefore(c), ![c].src = 0]
        \/ mux' = [mux EXCEPT ![c].div = DivBefore(c), ![c].enable = FALSE]
    BY <1>1 DEF ClkStart, Here
  <2>3. /\ DOMAIN mux' = Clocks /\ \A d \in Clocks \ {c} : mux'[d] = mux[d]
        /\ MuxFields \subseteq DOMAIN mux'[c]
    BY <1>0, <2>2 DEF MuxFields
  <2>4. Ready(c, line)'
    BY <2>1, ClockServesNext DEF Ready
  <2> QED BY <1>0, <2>1, <2>3, <2>4, StartGoesOn
<1>2. ASSUME Here("start", c, "parked"), ClkStart(c) PROVE StartedInv'
  <2>1. /\ at \in 1 .. Len(Program) /\ Program[at] = <<"start", c>>
        /\ at' = at /\ line' = "aux" /\ mux' = mux
    BY <1>2, PlaceOf DEF ClkStart, Here, GoTo
  <2>2. Ready(c, line)'
    BY <2>1, ClockServesNext DEF Ready
  <2> QED BY <1>0, <2>1, <2>2, StartGoesOn
<1>3. ASSUME Here("start", c, "aux"), c \in Glitchless, ClkStart(c) PROVE StartedInv'
  <2>1. /\ at \in 1 .. Len(Program) /\ Program[at] = <<"start", c>>
        /\ at' = at /\ line' = "switched"
        /\ mux' = [mux EXCEPT ![c].aux = Aux(c), ![c].src = Src(c)]
    BY <1>3, PlaceOf DEF ClkStart, Here, GoTo
  <2>2. /\ DOMAIN mux' = Clocks /\ \A d \in Clocks \ {c} : mux'[d] = mux[d]
        /\ MuxFields \subseteq DOMAIN mux'[c] /\ mux'[c].src = Src(c)
    BY <1>0, <2>1 DEF MuxFields
  <2>3. Ready(c, line)'
    BY <1>3, <2>1, <2>2, ClockServesNext DEF Ready
  <2> QED BY <1>0, <2>1, <2>2, <2>3, StartGoesOn
<1>4. ASSUME Here("start", c, "aux"), c \notin Glitchless, ClkStart(c) PROVE StartedInv'
  <2>1. /\ at \in 1 .. Len(Program) /\ Program[at] = <<"start", c>>
        /\ at' = at /\ line' = "enable"
        /\ mux' = [mux EXCEPT ![c].aux = Aux(c)]
    BY <1>4, PlaceOf DEF ClkStart, Here, GoTo
  <2>2. /\ DOMAIN mux' = Clocks /\ \A d \in Clocks \ {c} : mux'[d] = mux[d]
        /\ MuxFields \subseteq DOMAIN mux'[c] /\ mux'[c].aux = Aux(c)
    BY <1>0, <2>1 DEF MuxFields
  <2>3. Ready(c, line)'
    BY <1>4, <2>1, <2>2, ClockServesNext DEF Ready
  <2> QED BY <1>0, <2>1, <2>2, <2>3, StartGoesOn
<1>5. ASSUME Here("start", c, "switched"), ClkStart(c) PROVE StartedInv'
  <2>1. /\ at \in 1 .. Len(Program) /\ Program[at] = <<"start", c>> /\ line = "switched"
        /\ at' = at /\ line' = "enable" /\ mux' = mux /\ mux[c].selected = Src(c)
    BY <1>5, PlaceOf DEF ClkStart, Here, GoTo, Switched
  <2>2. Ready(c, "switched")
    BY <1>0, <2>1 DEF UnitInv
  <2>3. Ready(c, line)'
    BY <2>1, <2>2, ClockServes, ClockServesNext DEF Ready
  <2> QED BY <1>0, <2>1, <2>3, StartGoesOn
<1>6. ASSUME Here("start", c, "enable"), ClkStart(c) PROVE StartedInv'
  <2>1. /\ at \in 1 .. Len(Program) /\ Program[at] = <<"start", c>> /\ line = "enable"
        /\ Return /\ mux' = [mux EXCEPT ![c].enable = TRUE, ![c].div = DivFor(c)]
    BY <1>6, PlaceOf DEF ClkStart, Here
  <2>2. /\ DOMAIN mux' = Clocks /\ \A d \in Clocks \ {c} : mux'[d] = mux[d]
        /\ MuxFields \subseteq DOMAIN mux'[c] /\ mux'[c].enable
        /\ mux'[c].src = mux[c].src /\ mux'[c].aux = mux[c].aux
        /\ mux'[c].selected = mux[c].selected
    BY <1>0, <2>1 DEF MuxFields
  <2>3. Ready(c, "enable")
    BY <1>0, <2>1 DEF UnitInv
  <2>4. Serves(c)'
    BY <2>2, <2>3, ClockServes, ClockServesNext
  <2>5. UnitInv(c)'
    BY <1>0, <2>1, <2>4, UnitReturns
  <2> QED BY <1>0, <2>1, <2>2, <2>5, ClockWritten DEF Proceeds
<1>7. ASSUME ClkStop(c) PROVE StartedInv'
  <2>1. /\ at \in 1 .. Len(Program) /\ Program[at] = <<"stop", c>> /\ Return
        /\ mux' = [mux EXCEPT ![c].enable = FALSE]
    BY <1>7, PlaceOf DEF ClkStop
  <2>2. /\ DOMAIN mux' = Clocks /\ \A d \in Clocks \ {c} : mux'[d] = mux[d]
        /\ MuxFields \subseteq DOMAIN mux'[c]
    BY <1>0, <2>1 DEF MuxFields
  <2>3. UnitInv(c)'
    BY <1>0, <2>1, UnitReturns
  <2> QED BY <1>0, <2>1, <2>2, <2>3, ClockWritten DEF Proceeds
<1>8. \/ Here("start", c, "enter") \/ Here("start", c, "parked") \/ Here("start", c, "aux")
      \/ Here("start", c, "switched") \/ Here("start", c, "enable") \/ ClkStop(c)
  BY DEF ClkStart
<1>9. ClkStart(c) \/ ClkStop(c)
  OBVIOUS
<1> QED BY <1>1, <1>2, <1>3, <1>4, <1>5, <1>6, <1>7, <1>8, <1>9

LEMMA InternalStep == ASSUME StartedInv, NEW c \in Glitchless, Internal(c) PROVE StartedInv'
<1>1. /\ c \in Units /\ c \in Clocks /\ UnitInv(c) /\ UNCHANGED <<xosc, pll, triggered>>
      /\ DOMAIN mux = Clocks /\ MuxFields \subseteq DOMAIN mux[c]
  BY UnitKinds DEF StartedInv, Registers, Internal, GoTo, Return
<1>2. /\ at \in 1 .. Len(Program) /\ Program[at] = <<"internal", c>>
      /\ Return \/ (at' = at /\ line' = "wait")
      /\ mux' = mux \/ mux' = [mux EXCEPT ![c].src = 0]
  BY PlaceOf DEF Internal, GoTo
<1>3. /\ DOMAIN mux' = Clocks /\ \A d \in Clocks \ {c} : mux'[d] = mux[d]
      /\ MuxFields \subseteq DOMAIN mux'[c]
  BY <1>1, <1>2 DEF MuxFields
<1>4. UnitInv(c)'
  <2>1. ~UpAt(c, at)
    BY <1>2, StoppedDown
  <2> QED BY <1>1, <1>2, <2>1, UnitReturns, UnitStays
<1> QED BY <1>1, <1>2, <1>3, <1>4, ClockWritten DEF Proceeds

-----------------------------------------------------------------------------
\* An oscillator settles, a PLL locks, a multiplexer changes over: nothing that runs
\* as it should stops doing so.
LEMMA HardwareStep == ASSUME StartedInv, Hardware PROVE StartedInv'
<1>1. ASSUME XoscSettles PROVE StartedInv'
  <2>1. UNCHANGED <<at, line, triggered, pll, mux>>
        /\ xosc' = [xosc EXCEPT !.stable = TRUE]
    BY <1>1 DEF XoscSettles, program
  <2>2. Registers' /\ Freed' /\ xosc'.stable
    BY <2>1 DEF StartedInv, Registers, Freed
  <2>3. ASSUME NEW u \in Units
        PROVE  (Serves(u) => Serves(u)') /\ \A l : Ready(u, l) => Ready(u, l)'
    BY <2>1, <2>2 DEF Serves, Ready, PllRuns
  <2> QED BY <2>1, <2>2, <2>3, StandingStep
<1>2. ASSUME NEW p \in Plls, PllLocks(p) PROVE StartedInv'
  <2>1. UNCHANGED <<at, line, triggered, xosc, mux>>
        /\ pll' = [pll EXCEPT ![p].lock = TRUE]
    BY <1>2 DEF PllLocks, program
  <2>2. /\ DOMAIN pll' = Plls /\ \A q \in Plls \ {p} : pll'[q] = pll[q]
        /\ PllFields \subseteq DOMAIN pll'[p]
        /\ pll'[p].lock /\ pll'[p].post = pll[p].post /\ pll'[p].held = pll[p].held
    BY <2>1 DEF StartedInv, Registers, PllFields
  <2>3. Registers' /\ Freed'
    BY <2>1, <2>2 DEF StartedInv, Registers, Freed
  <2>4. ASSUME NEW u \in Units
        PROVE  (Serves(u) => Serves(u)') /\ \A l : Ready(u, l) => Ready(u, l)'
    <3>1. CASE u = p
      BY <2>2, <3>1, PllServes, PllServesNext
    <3>2. CASE u # p
      <4>1. Kept(u)
        BY <2>1, <2>2, <3>2 DEF Kept
      <4> QED BY <4>1, KeptServes
    <3> QED BY <3>1, <3>2
  <2> QED BY <2>1, <2>3, <2>4, StandingStep
<1>3. ASSUME NEW c \in Glitchless, MuxSwitches(c) PROVE StartedInv'
  <2>0. c \in Clocks
    BY UnitKinds
  <2>1. /\ UNCHANGED <<at, line, triggered, xosc, pll>>
        /\ mux[c].selected # mux[c].src
        /\ mux' = [mux EXCEPT ![c].selected = mux[c].src]
    BY <1>3 DEF MuxSwitches, program
  <2>2. /\ DOMAIN mux' = Clocks /\ \A d \in Clocks \ {c} : mux'[d] = mux[d]
        /\ MuxFields \subseteq DOMAIN mux'[c]
        /\ mux'[c].src = mux[c].src
    BY <2>0, <2>1 DEF StartedInv, Registers, MuxFields
  <2>3. Registers' /\ Freed'
    BY <2>1, <2>2 DEF StartedInv, Registers, Freed
  <2>4. ASSUME NEW u \in Units
        PROVE  (Serves(u) => Serves(u)') /\ \A l : Ready(u, l) => Ready(u, l)'
    <3>1. CASE u = c
      BY <2>0, <2>1, <2>2, <3>1, ClockServes, ClockServesNext
    <3>2. CASE u # c
      <4>1. Kept(u)
        BY <2>1, <2>2, <3>2 DEF Kept
      <4> QED BY <4>1, KeptServes
    <3> QED BY <3>1, <3>2
  <2> QED BY <2>1, <2>3, <2>4, StandingStep
<1> QED BY <1>1, <1>2, <1>3 DEF Hardware

\* At its first call a program has started nothing.
LEMMA NothingUp == \A u : ~UpAt(u, 1)
BY DEF UpAt, UpIn

LEMMA Begins ==
    ASSUME at = 1, line = "enter", Registers, Freed PROVE StartedInv
<1>1. \A u \in Units : Ready(u, line)
  BY DEF Ready
<1> QED BY <1>1, NothingUp DEF StartedInv, UnitInv, InLog

LEMMA StartedInvInit == Init => StartedInv
<1> SUFFICES ASSUME Init PROVE StartedInv
  OBVIOUS
<1>1. /\ at = 1 /\ line = "enter" /\ xosc = [enable |-> 0, stable |-> FALSE]
      /\ triggered = [b \in Blocks |-> FALSE]
      /\ pll = [p \in Plls |-> PllOff(TRUE)]
      /\ mux = [c \in Clocks |-> [src |-> 0, aux |-> 0, selected |-> 0,
                                  enable |-> FALSE, div |-> 256]]
  BY DEF Init, TreeInit
<1>2. at \in 1 .. Len(Program) + 1
  BY <1>1, ClocksAssumption
<1>3. Registers
  BY <1>1, <1>2 DEF Registers, MuxFields, PllFields, PllOff
<1>4. Freed
  BY <1>1, UnitKinds DEF Freed
<1> QED BY <1>1, <1>3, <1>4, Begins

LEMMA RestartStep == ASSUME StartedInv, Restart PROVE StartedInv'
<1>1. /\ at' = 1 /\ line' = "enter" /\ UNCHANGED <<xosc, pll, mux>>
      /\ triggered' = [b \in Blocks |-> FALSE]
  BY DEF Restart
<1>2. at' \in 1 .. Len(Program) + 1
  BY <1>1, ClocksAssumption
<1>3. Registers' /\ Freed'
  BY <1>1, <1>2, UnitKinds DEF StartedInv, Registers, Freed
<1>4. \A u \in Units : Ready(u, line)'
  BY <1>1 DEF Ready
<1>5. \A u : ~UpAt(u, at)'
  BY <1>1, NothingUp DEF UpAt, UpIn
<1> QED BY <1>1, <1>3, <1>4, <1>5 DEF StartedInv, UnitInv, InLog

LEMMA IdleStep ==
    ASSUME StartedInv, UNCHANGED <<at, line, triggered, xosc, pll, mux>> PROVE StartedInv'
<1>1. Registers' /\ Freed'
  BY DEF StartedInv, Registers, Freed
<1>2. \A u \in Units : Kept(u)
  BY DEF Kept
<1> QED BY <1>1, <1>2, KeptServes, StandingStep

LEMMA ProcessorStep == ASSUME StartedInv, Once(Program), Processor PROVE StartedInv'
<1>1. CASE ClockCalls
  <2>1. \/ XoscStart \/ XoscStop
        \/ \E p \in Plls : PllStart(p) \/ PllStop(p)
        \/ \E c \in Clocks : ClkStart(c) \/ ClkStop(c)
        \/ \E c \in Glitchless : Internal(c)
    BY <1>1 DEF ClockCalls
  <2> QED BY <2>1, XoscStep, PllStep, ClockStep, InternalStep
<1>2. CASE ~ClockCalls
  <2>1. UNCHANGED <<xosc, pll, mux>>
    BY <1>2 DEF Processor
  <2>2. ASSUME NEW r, NEW u, NEW l, Here(r, u, l), r # "start", Proceeds, UNCHANGED triggered
        PROVE  StartedInv'
    <3>1. at \in 1 .. Len(Program) /\ \A v : Program[at] # <<"start", v>>
      BY <2>2, PlaceOf
    <3>2. Freed' /\ DOMAIN triggered' = Blocks
      BY <2>1, <2>2 DEF StartedInv, Registers, Freed
    <3> QED BY <2>1, <2>2, <3>1, <3>2, QuietStep
  <2>3. ASSUME NEW b \in Blocks \ Plls, ResetBlock(b) PROVE StartedInv'
    <3>1. Proceeds
      BY <2>3 DEF ResetBlock, Proceeds
    <3>2. PICK l : Here("reset", b, l)
      BY <2>3 DEF ResetBlock
    <3>3. at \in 1 .. Len(Program) /\ \A v : Program[at] # <<"start", v>>
      BY <3>2, PlaceOf
    <3>4. triggered' = triggered \/ triggered' = [triggered EXCEPT ![b] = TRUE]
      BY <2>3 DEF ResetBlock, Return
    <3>5. Freed' /\ DOMAIN triggered' = Blocks
      BY <2>1, <3>4, UnitKinds DEF StartedInv, Registers, Freed
    <3> QED BY <2>1, <3>1, <3>3, <3>5, QuietStep
  <2>4. ASSUME NEW p \in Pins, Configure(p) \/ Set(p) \/ Toggle(p) PROVE StartedInv'
    <3>1. Return
      BY <2>4 DEF Configure, Set, Toggle
    <3>2. \E r \in {"configure", "set", "clear", "toggle"} : Here(r, p, "enter")
      BY <2>4 DEF Configure, Set, Toggle
    <3>3. PICK r : Here(r, p, "enter") /\ r # "start"
      BY <3>2
    <3> QED BY <2>2, <3>1, <3>3 DEF Proceeds, Return
  <2>5. ASSUME NEW step \in UartSteps, SetUart(step) PROVE StartedInv'
    <3>1. Return /\ Here("uart0", step, "enter")
      BY <2>5 DEF SetUart
    <3> QED BY <2>2, <3>1 DEF Proceeds, Return
  <2>6. ASSUME SetLogSink PROVE StartedInv'
    <3>1. Return /\ Here("set_log_sink", "uart0", "enter")
      BY <2>6 DEF SetLogSink
    <3> QED BY <2>2, <3>1 DEF Proceeds, Return
  <2>7. ASSUME NEW n \in Lengths, LogBegin(n) PROVE StartedInv'
    <3>1. Here("log", n, "enter") /\ (Return \/ GoTo("write"))
      BY <2>7 DEF LogBegin
    <3>2. Proceeds /\ UNCHANGED triggered
      BY <3>1 DEF Proceeds, GoTo, Here, Return
    <3> QED BY <2>2, <3>1, <3>2
  <2>8. ASSUME WriteByte PROVE StartedInv'
    BY <2>1, <2>8, IdleStep DEF WriteByte, program
  <2>9. ASSUME LogEnd PROVE StartedInv'
    <3>1. Return /\ at \in 1 .. Len(Program) /\ Program[at][1] = "log"
      BY <2>9 DEF LogEnd, StartedInv, InLog
    <3>2. \A v : Program[at] # <<"start", v>>
      BY <3>1
    <3>3. Freed' /\ DOMAIN triggered' = Blocks
      BY <2>1, <3>1 DEF StartedInv, Registers, Freed, Return
    <3> QED BY <2>1, <3>1, <3>2, <3>3, QuietStep DEF Proceeds
  <2> QED BY <1>2, <2>3, <2>4, <2>5, <2>6, <2>7, <2>8, <2>9 DEF Processor, Log
<1> QED BY <1>1, <1>2

LEMMA StartedInvNext == StartedInv /\ Once(Program) /\ [Next]_vars => StartedInv'
<1> SUFFICES ASSUME StartedInv, Once(Program), [Next]_vars PROVE StartedInv'
  OBVIOUS
<1>1. CASE Compile
  BY <1>1, IdleStep DEF Compile, program
<1>2. CASE Processor
  BY <1>2, ProcessorStep
<1>3. CASE UartSends
  BY <1>3, IdleStep DEF UartSends, tree, program
<1>4. CASE RestartCore
  BY <1>4, RestartStep DEF RestartCore
<1>5. CASE Hardware
  BY <1>5, HardwareStep
<1>6. CASE UNCHANGED vars
  BY <1>6, IdleStep DEF vars, tree, program
<1> QED BY <1>1, <1>2, <1>3, <1>4, <1>5, <1>6 DEF Next

-----------------------------------------------------------------------------
\* A clock without a multiplexer of its own kind runs from a PLL or from the crystal.
LEMMA SourceKinds == \A c \in Clocks \ Glitchless : Source(c) \in Plls \cup {"xosc"}
<1> SUFFICES ASSUME NEW c \in Clocks \ Glitchless PROVE Source(c) \in Plls \cup {"xosc"}
  OBVIOUS
<1>1. \A s \in Plls \cup {"xosc"} :
          /\ GenericAtt(s) = IF s = "pll_usb" THEN 0 ELSE IF s = "pll_sys" THEN 1 ELSE 3
          /\ PeriAtt(s) = IF s = "pll_usb" THEN 1 ELSE IF s = "pll_sys" THEN 2 ELSE 4
  BY DEF GenericAtt, PeriAtt, Plls
<1>2. CASE c \in Generic
  <2>1. c # "sys" /\ c # "peri" /\ c # "ref" /\ Attached[c] \in Plls \cup {"xosc"}
    BY <1>2, ClocksAssumption DEF Generic
  <2>2. Aux(c) = GenericAtt(Attached[c])
    BY <1>2, <2>1 DEF Aux
  <2>3. Aux(c) \in {0, 1, 3}
    BY <1>1, <2>1, <2>2
  <2>4. \A n \in {0, 1, 3} : AuxInput(c, n) \in {"pll_usb", "pll_sys", "xosc"}
    BY <2>1 DEF AuxInput
  <2> QED BY <2>3, <2>4 DEF Source, Plls
<1>3. CASE c = "peri"
  <2>1. Attached["rtc"] \in Plls \cup {"xosc"}
    BY ClocksAssumption DEF Generic
  <2>2. Aux(c) = PeriAtt(Attached["rtc"])
    BY <1>3 DEF Aux, Generic
  <2>3. Aux(c) \in {1, 2, 4}
    BY <1>1, <2>1, <2>2
  <2>4. \A n \in {1, 2, 4} : AuxInput("peri", n) \in {"pll_usb", "pll_sys", "xosc"}
    BY DEF AuxInput
  <2> QED BY <1>3, <2>3, <2>4 DEF Source, Plls
<1> QED BY <1>2, <1>3 DEF Clocks, Glitchless

LEMMA StartedInvRuns == StartedInv /\ Sourced(Program) => StartedRuns
<1> SUFFICES ASSUME StartedInv, Sourced(Program) PROVE StartedRuns
  OBVIOUS
<1>1. at \in 1 .. Len(Program) + 1
  BY DEF StartedInv, Registers
<1>2. ASSUME NEW u, Up(u) PROVE UpAt(u, at)
  <2>1. \A j \in 1 .. Len(Program) :
            Program[j] \in {<<"stop", u>>, <<"internal", u>>} =>
                Program[j][1] \in {"stop", "internal"} /\ Program[j][2] = u
    OBVIOUS
  <2> QED BY <1>2, <2>1 DEF Up, UpAt, UpIn
<1>3. ASSUME NEW u \in Units, UpAt(u, at) PROVE Serves(u)
  BY <1>3 DEF StartedInv, UnitInv
<1>4. ASSUME NEW c \in Glitchless, Up(c) PROVE mux[c].selected = Src(c)
  BY <1>2, <1>3, <1>4, UnitKinds, ClockServes
<1>5. ASSUME NEW c \in Clocks \ Glitchless, Up(c) PROVE AuxRuns(c)
  <2>1. mux[c].enable /\ mux[c].aux = Aux(c)
    BY <1>2, <1>3, <1>5, UnitKinds, ClockServes
  <2>2. Source(c) \in Plls \cup {"xosc"}
    BY SourceKinds
  <2>3. UpAt(Source(c), at)
    BY <1>1, <1>2, <1>5 DEF Sourced, UpAt
  <2>4. Serves(Source(c))
    BY <1>3, <2>2, <2>3, UnitKinds
  <2>5. SourceRuns(Source(c)) /\ Source(c) # "sys"
    <3>1. CASE Source(c) \in Plls
      <4>1. PllRuns(Source(c))
        BY <2>4, <3>1 DEF Serves
      <4> QED BY <3>1, <4>1 DEF SourceRuns, Plls
    <3>2. CASE Source(c) = "xosc"
      <4>1. xosc.stable
        BY <2>4, <3>2 DEF Serves
      <4>2. "xosc" \notin Plls
        BY DEF Plls
      <4> QED BY <3>2, <4>1, <4>2 DEF SourceRuns
    <3> QED BY <2>2, <3>1, <3>2
  <2> QED BY <2>1, <2>5 DEF AuxRuns, Source
<1> QED BY <1>4, <1>5 DEF StartedRuns

\* What start() has been called for runs, until the program stops it: ref and sys from
\* the input it chose, every other clock from a source that runs; whatever the clocks
\* are attached to, however the hardware takes its time and wherever the core is
\* reset, in every program that starts things in order
\* (drivers/clk/rp2-clk.cpp:63-157, drivers/clk/rp2-pll.cpp).
THEOREM StartedClocksRun == Orderly(Program) => (Spec => []StartedRuns)
<1> SUFFICES ASSUME Orderly(Program) PROVE Spec => []StartedRuns
  OBVIOUS
<1>1. StartedInv => StartedRuns
  BY StartedInvRuns DEF Orderly
<1>2. StartedInv /\ [Next]_vars => StartedInv'
  BY StartedInvNext DEF Orderly
<1> QED BY <1>1, <1>2, StartedInvInit, PTL DEF Spec

-----------------------------------------------------------------------------
\* The calls of hw_initialize that start something come first, and nothing is started
\* twice or stopped.
Order == <<"xosc", "pll_sys", "pll_usb", "ref", "sys", "usb", "adc", "rtc", "peri">>
OfUnits(call) == call[1] \in {"start", "stop", "internal"}
Early(s) ==
    /\ 11 <= Len(s)
    /\ s[1] = <<"internal", "ref">> /\ s[2] = <<"internal", "sys">>
    /\ \A i \in 1 .. 9 : s[i + 2] = <<"start", Order[i]>>
    /\ \A i \in 12 .. Len(s) : ~OfUnits(s[i])

LEMMA StartClocksEarly ==
    StartClocks \in Seq(Calls) /\ Early(StartClocks) /\ Len(StartClocks) = 11
<1> DEFINE Sources == <<"xosc", "pll_sys", "pll_usb">>
           Rest == <<"ref", "sys", "usb", "adc", "rtc", "peri">>
           Names == {"xosc", "pll_sys", "pll_usb", "ref", "sys", "usb", "adc", "rtc", "peri"}
           S == {<<"internal", "ref">>, <<"internal", "sys">>} \cup ({"start"} \X Names)
           first == Started(Sources)
           second == Started(Rest)
           five == Preinit \o first
<1>1. /\ Sources \in Seq(Names) /\ Rest \in Seq(Names) /\ Len(Sources) = 3 /\ Len(Rest) = 6
  OBVIOUS
<1>2. Preinit \in Seq(S) /\ Len(Preinit) = 2
      /\ Preinit[1] = <<"internal", "ref">> /\ Preinit[2] = <<"internal", "sys">>
  <2>1. Preinit \in Seq({<<"internal", "ref">>, <<"internal", "sys">>})
    BY DEF Preinit
  <2>2. Preinit \in Seq(S)
    BY ONLY <2>1, WiderSeq
  <2> QED BY <2>2 DEF Preinit
<1>3. /\ first \in Seq({"start"} \X Names) /\ Len(first) = 3
      /\ \A i \in 1 .. 3 : first[i] = <<"start", Sources[i]>>
  <2> HIDE DEF Sources, Names
  <2> QED BY <1>1, StartedCalls
<1>4. /\ second \in Seq({"start"} \X Names) /\ Len(second) = 6
      /\ \A i \in 1 .. 6 : second[i] = <<"start", Rest[i]>>
  <2> HIDE DEF Rest, Names
  <2> QED BY <1>1, StartedCalls
<1> HIDE DEF first, second
<1>5. first \in Seq(S) /\ second \in Seq(S)
  <2> HIDE DEF Names
  <2> QED BY <1>3, <1>4, WiderSeq
<1>6. /\ five \in Seq(S) /\ Len(five) = Len(Preinit) + Len(first)
      /\ \A i \in 1 .. Len(Preinit) : five[i] = Preinit[i]
      /\ \A i \in 1 .. Len(first) : five[Len(Preinit) + i] = first[i]
  <2>1. Preinit \in Seq(S) /\ first \in Seq(S)
    BY <1>2, <1>5
  <2> HIDE DEF S
  <2>2. /\ Preinit \o first \in Seq(S) /\ Len(Preinit \o first) = Len(Preinit) + Len(first)
        /\ \A i \in 1 .. Len(Preinit) : (Preinit \o first)[i] = Preinit[i]
        /\ \A i \in 1 .. Len(first) : (Preinit \o first)[Len(Preinit) + i] = first[i]
    BY ONLY <2>1, ConcatParts
  <2> QED BY <2>2 DEF five
<1> HIDE DEF five
<1>7. /\ five \o second \in Seq(S) /\ Len(five \o second) = Len(five) + Len(second)
      /\ \A i \in 1 .. Len(five) : (five \o second)[i] = five[i]
      /\ \A i \in 1 .. Len(second) : (five \o second)[Len(five) + i] = second[i]
  <2>1. five \in Seq(S) /\ second \in Seq(S)
    BY <1>5, <1>6
  <2> HIDE DEF S
  <2> QED BY ONLY <2>1, ConcatParts
<1>8. StartClocks = five \o second
  BY DEF StartClocks, five, first, second
<1>9. /\ StartClocks \in Seq(S) /\ Len(StartClocks) = 11
      /\ \A i \in 1 .. 5 : StartClocks[i] = five[i]
      /\ \A i \in 1 .. 6 : StartClocks[5 + i] = second[i]
      /\ five[1] = <<"internal", "ref">> /\ five[2] = <<"internal", "sys">>
      /\ \A i \in 1 .. 3 : five[2 + i] = first[i]
  <2>1. Len(five) = 5 /\ Len(five \o second) = 11
    BY <1>2, <1>3, <1>4, <1>6, <1>7
  <2>2. /\ \A i \in 1 .. 5 : (five \o second)[i] = five[i]
        /\ \A i \in 1 .. 6 : (five \o second)[5 + i] = second[i]
    BY <1>4, <1>7, <2>1
  <2>3. /\ five[1] = Preinit[1] /\ five[2] = Preinit[2]
        /\ \A i \in 1 .. 3 : five[2 + i] = first[i]
    BY <1>2, <1>3, <1>6
  <2> HIDE DEF S
  <2> QED BY <1>2, <1>7, <1>8, <2>1, <2>2, <2>3
<1>10. \A i \in 1 .. 9 : StartClocks[i + 2] = <<"start", Order[i]>>
  <2>1. ASSUME NEW i \in 1 .. 3 PROVE StartClocks[i + 2] = <<"start", Order[i]>>
    <3>1. StartClocks[i + 2] = first[i]
      <4> HIDE DEF S
      <4>1. i + 2 \in 1 .. 5 /\ i + 2 = 2 + i
        BY <2>1
      <4> QED BY <1>9, <4>1
    <3>2. i \in {1, 2, 3}
      BY <2>1
    <3>3. Sources[i] = Order[i]
      BY <3>2 DEF Order
    <3> HIDE DEF Sources
    <3> QED BY <1>3, <3>1, <3>3
  <2>2. ASSUME NEW i \in 4 .. 9 PROVE StartClocks[i + 2] = <<"start", Order[i]>>
    <3> DEFINE n == i - 3
    <3>1. n \in 1 .. 6 /\ i + 2 = 5 + n
      BY <2>2
    <3>2. StartClocks[i + 2] = second[n]
      <4> HIDE DEF S, n
      <4> QED BY <1>9, <3>1
    <3>3. i \in {4, 5, 6, 7, 8, 9}
      BY <2>2
    <3>4. Rest[n] = Order[i]
      BY <3>3 DEF Order
    <3> HIDE DEF Rest, n
    <3> QED BY <1>4, <3>1, <3>2, <3>4
  <2> QED BY <2>1, <2>2
<1>11. Early(StartClocks)
  <2>1. StartClocks[1] = <<"internal", "ref">> /\ StartClocks[2] = <<"internal", "sys">>
    BY <1>9
  <2>2. 11 <= Len(StartClocks) /\ 12 .. Len(StartClocks) = {}
    BY <1>9
  <2> QED BY <1>10, <2>1, <2>2 DEF Early
<1> QED BY <1>9, <1>11, StartClocksFrees

\* The calls that follow.
Second ==
    <<<<"reset", "io_bank0">>, <<"reset", "pads_bank0">>, <<"configure", "led">>, <<"set", "led">>,
      <<"reset", "uart0">>, <<"configure", "tx">>, <<"configure", "rx">>,
      <<"uart0", "off">>, <<"uart0", "divider">>, <<"uart0", "line_control">>, <<"uart0", "on">>>>

LEMMA EarlyConcat ==
    ASSUME NEW s \in Seq(Calls), NEW t \in Seq(Calls), Early(s),
           \A i \in 1 .. Len(t) : ~OfUnits(t[i])
    PROVE  s \o t \in Seq(Calls) /\ Early(s \o t)
<1> DEFINE u == s \o t
           m == Len(s)
<1>1. /\ u \in Seq(Calls) /\ Len(u) = m + Len(t) /\ m \in Nat /\ Len(t) \in Nat
      /\ \A i \in 1 .. m : u[i] = s[i]
      /\ \A i \in 1 .. Len(t) : u[m + i] = t[i]
  <2> HIDE DEF Calls
  <2>1. m \in Nat /\ Len(t) \in Nat
    OBVIOUS
  <2> QED BY <2>1, ConcatParts DEF u, m
<1> HIDE DEF u
<1>2. 11 <= m
  BY DEF Early
<1> HIDE DEF m
<1>3. u[1] = s[1] /\ u[2] = s[2] /\ \A i \in 1 .. 9 : u[i + 2] = s[i + 2]
  BY <1>1, <1>2
<1>4. ASSUME NEW i \in 12 .. Len(u) PROVE ~OfUnits(u[i])
  <2>1. CASE i <= m
    <3>1. i \in 12 .. m /\ i \in 1 .. m
      BY <1>1, <1>2, <1>4, <2>1
    <3> QED BY <1>1, <3>1 DEF Early, m
  <2>2. CASE ~(i <= m)
    <3> DEFINE n == i - m
    <3>1. n \in 1 .. Len(t) /\ i = m + n
      BY <1>1, <1>4, <2>2
    <3> HIDE DEF n
    <3> QED BY <1>1, <3>1
  <2> QED BY <2>1, <2>2
<1>5. 11 <= Len(u)
  BY <1>1, <1>2
<1> QED BY <1>1, <1>3, <1>4, <1>5 DEF Early, u

LEMMA HwInitializeEarly ==
    /\ HwInitialize \in Seq(Calls) /\ Early(HwInitialize)
    /\ Len(HwInitialize) = 22 /\ \A i \in 1 .. 11 : HwInitialize[11 + i] = Second[i]
<1> DEFINE Led == <<<<"configure", "led">>, <<"set", "led">>>>
           Uart == <<<<"reset", "uart0">>, <<"configure", "tx">>, <<"configure", "rx">>>>
           Steps == <<"off", "divider", "line_control", "on">>
           Writing == [i \in 1 .. 4 |-> <<"uart0", Steps[i]>>]
           T == {"reset", "configure", "set", "uart0"} \X Others
<1>0. \A t \in Seq(T) : t \in Seq(Calls) /\ \A i \in 1 .. Len(t) : ~OfUnits(t[i])
  <2> SUFFICES ASSUME NEW t \in Seq(T)
               PROVE  t \in Seq(Calls) /\ \A i \in 1 .. Len(t) : ~OfUnits(t[i])
    OBVIOUS
  <2>1. T \subseteq Calls /\ \A call \in T : ~OfUnits(call)
    BY DEF Calls, Routines, OfUnits
  <2> HIDE DEF T, Calls
  <2> QED BY <2>1
<1>1. GpioInit \in Seq(T)
  <2>1. {<<"reset", "io_bank0">>, <<"reset", "pads_bank0">>} \subseteq T
    BY DEF Others
  <2>2. GpioInit \in Seq({<<"reset", "io_bank0">>, <<"reset", "pads_bank0">>})
    BY DEF GpioInit
  <2> HIDE DEF T
  <2> QED BY ONLY <2>1, <2>2, WiderSeq
<1>2. Led \in Seq(T)
  <2>1. {<<"configure", "led">>, <<"set", "led">>} \subseteq T
    BY DEF Others
  <2>2. Led \in Seq({<<"configure", "led">>, <<"set", "led">>})
    OBVIOUS
  <2> HIDE DEF T, Led
  <2> QED BY ONLY <2>1, <2>2, WiderSeq
<1>3. Uart \in Seq(T)
  <2> DEFINE Three == {<<"reset", "uart0">>, <<"configure", "tx">>, <<"configure", "rx">>}
  <2>1. Three \subseteq T
    BY DEF Others
  <2>2. Uart \in Seq(Three)
    OBVIOUS
  <2> HIDE DEF Three, Uart, T
  <2> QED BY ONLY <2>1, <2>2, WiderSeq
<1>4. Writing \in Seq(T)
  <2>1. \A i \in 1 .. 4 : i \in {1, 2, 3, 4}
    OBVIOUS
  <2>2. \A i \in {1, 2, 3, 4} : Steps[i] \in Others
    BY DEF Others, UartSteps
  <2> HIDE DEF Steps
  <2>3. \A i \in 1 .. 4 : <<"uart0", Steps[i]>> \in T
    BY <2>1, <2>2
  <2> HIDE DEF T
  <2> QED BY <2>3
<1>5. HwInitialize = ((StartClocks \o GpioInit) \o Led) \o (Uart \o Writing)
  BY DEF HwInitialize, UartConfigure
<1> HIDE DEF Led, Uart, Writing, T
<1>6. Uart \o Writing \in Seq(T)
  BY ONLY <1>3, <1>4, ConcatParts
<1> DEFINE a == StartClocks \o GpioInit
           b == a \o Led
           last == Uart \o Writing
<1> HIDE DEF last
<1>7. /\ GpioInit \in Seq(Calls) /\ \A i \in 1 .. Len(GpioInit) : ~OfUnits(GpioInit[i])
      /\ Led \in Seq(Calls) /\ \A i \in 1 .. Len(Led) : ~OfUnits(Led[i])
      /\ last \in Seq(Calls) /\ \A i \in 1 .. Len(last) : ~OfUnits(last[i])
  <2>1. last \in Seq(T)
    BY <1>6 DEF last
  <2> QED BY ONLY <1>0, <1>1, <1>2, <2>1
<1>8. a \in Seq(Calls) /\ Early(a)
  BY <1>7, StartClocksEarly, EarlyConcat
<1> HIDE DEF a
<1>9. b \in Seq(Calls) /\ Early(b)
  BY <1>7, <1>8, EarlyConcat
<1> HIDE DEF b
<1>10. b \o last \in Seq(Calls) /\ Early(b \o last)
  BY <1>7, <1>9, EarlyConcat
<1>11. /\ Len(GpioInit) = 2 /\ \A i \in 1 .. 2 : GpioInit[i] = Second[i]
       /\ Len(Led) = 2 /\ \A i \in 1 .. 2 : Led[i] = Second[2 + i]
       /\ Len(Uart) = 3 /\ \A i \in 1 .. 3 : Uart[i] = Second[4 + i]
       /\ Len(Writing) = 4 /\ \A i \in 1 .. 4 : Writing[i] = Second[7 + i]
  <2>1. /\ \A i \in 1 .. 2 : i = 1 \/ i = 2
        /\ \A i \in 1 .. 3 : i = 1 \/ i = 2 \/ i = 3
        /\ \A i \in 1 .. 4 : i = 1 \/ i = 2 \/ i = 3 \/ i = 4
    OBVIOUS
  <2>2. Len(GpioInit) = 2 /\ GpioInit[1] = Second[1] /\ GpioInit[2] = Second[2]
    BY DEF GpioInit, Second
  <2>3. Len(Led) = 2 /\ Led[1] = Second[3] /\ Led[2] = Second[4]
    BY DEF Led, Second
  <2>4. Len(Uart) = 3 /\ Uart[1] = Second[5] /\ Uart[2] = Second[6] /\ Uart[3] = Second[7]
    BY DEF Uart, Second
  <2>5. /\ Len(Writing) = 4 /\ Writing[1] = Second[8] /\ Writing[2] = Second[9]
        /\ Writing[3] = Second[10] /\ Writing[4] = Second[11]
    BY DEF Writing, Second
  <2> QED BY <2>1, <2>2, <2>3, <2>4, <2>5
<1>12. /\ Len(last) = 7 /\ \A i \in 1 .. 7 : last[i] = Second[4 + i]
  <2>1. Len(Uart) = 3 /\ Len(Writing) = 4
    BY ONLY <1>11
  <2>2. /\ Len(Uart \o Writing) = 3 + 4
        /\ \A i \in 1 .. 3 : (Uart \o Writing)[i] = Uart[i]
        /\ \A i \in 1 .. 4 : (Uart \o Writing)[3 + i] = Writing[i]
    <3>1. /\ Len(Uart \o Writing) = Len(Uart) + Len(Writing)
          /\ \A i \in 1 .. Len(Uart) : (Uart \o Writing)[i] = Uart[i]
          /\ \A i \in 1 .. Len(Writing) : (Uart \o Writing)[Len(Uart) + i] = Writing[i]
      BY ONLY <1>3, <1>4, ConcatParts
    <3> QED BY ONLY <2>1, <3>1
  <2>3. Len(last) = 7
    BY <2>2 DEF last
  <2>4. ASSUME NEW i \in 1 .. 7 PROVE last[i] = Second[4 + i]
    <3>1. CASE i <= 3
      BY <1>11, <2>2, <3>1 DEF last
    <3>2. CASE ~(i <= 3)
      <4>1. PICK j \in 1 .. 4 : i = 3 + j
        <5>1. i - 3 \in 1 .. 4 /\ i = 3 + (i - 3)
          BY <3>2
        <5> QED BY <5>1
      <4>2. 4 + i = 7 + j
        BY <4>1
      <4> QED BY <1>11, <2>2, <4>1, <4>2 DEF last
    <3> QED BY <3>1, <3>2
  <2> QED BY <2>3, <2>4
<1>13. Len(a) = 13 /\ \A i \in 1 .. 2 : a[11 + i] = Second[i]
  <2> HIDE DEF Calls
  <2>1. StartClocks \in Seq(Calls) /\ GpioInit \in Seq(Calls)
    BY ONLY <1>7, StartClocksEarly
  <2>2. Len(StartClocks) = 11 /\ Len(GpioInit) = 2
    BY ONLY <1>11, StartClocksEarly
  <2>3. /\ Len(StartClocks \o GpioInit) = 11 + 2
        /\ \A i \in 1 .. 2 : (StartClocks \o GpioInit)[11 + i] = GpioInit[i]
    <3>1. /\ Len(StartClocks \o GpioInit) = Len(StartClocks) + Len(GpioInit)
          /\ \A i \in 1 .. Len(StartClocks) : (StartClocks \o GpioInit)[i] = StartClocks[i]
          /\ \A i \in 1 .. Len(GpioInit) : (StartClocks \o GpioInit)[Len(StartClocks) + i] = GpioInit[i]
      BY ONLY <2>1, ConcatParts
    <3> QED BY ONLY <2>2, <3>1
  <2> QED BY <1>11, <2>3 DEF a
<1>14. Len(b) = 15 /\ \A i \in 1 .. 4 : b[11 + i] = Second[i]
  <2> HIDE DEF Calls
  <2>1. a \in Seq(Calls) /\ Led \in Seq(Calls)
    BY ONLY <1>7, <1>8
  <2>2. Len(a) = 13 /\ Len(Led) = 2
    BY ONLY <1>11, <1>13
  <2>3. /\ Len(a \o Led) = 13 + 2
        /\ \A i \in 1 .. 13 : (a \o Led)[i] = a[i]
        /\ \A i \in 1 .. 2 : (a \o Led)[13 + i] = Led[i]
    <3>1. /\ Len(a \o Led) = Len(a) + Len(Led)
          /\ \A i \in 1 .. Len(a) : (a \o Led)[i] = a[i]
          /\ \A i \in 1 .. Len(Led) : (a \o Led)[Len(a) + i] = Led[i]
      BY ONLY <2>1, ConcatParts
    <3> QED BY ONLY <2>2, <3>1
  <2>4. ASSUME NEW i \in 1 .. 4 PROVE b[11 + i] = Second[i]
    <3>1. CASE i <= 2
      BY <1>13, <2>3, <3>1 DEF b
    <3>2. CASE ~(i <= 2)
      <4>1. PICK j \in 1 .. 2 : i = 2 + j
        <5>1. i - 2 \in 1 .. 2 /\ i = 2 + (i - 2)
          BY <3>2
        <5> QED BY <5>1
      <4>2. 11 + i = 13 + j
        BY <4>1
      <4> QED BY <1>11, <2>3, <4>1, <4>2 DEF b
    <3> QED BY <3>1, <3>2
  <2>5. Len(b) = 15
    BY <2>3 DEF b
  <2> QED BY ONLY <2>4, <2>5
<1>15. Len(b \o last) = 22 /\ \A i \in 1 .. 11 : (b \o last)[11 + i] = Second[i]
  <2> HIDE DEF Calls
  <2>1. b \in Seq(Calls) /\ last \in Seq(Calls)
    BY ONLY <1>7, <1>9
  <2>2. Len(b) = 15 /\ Len(last) = 7
    BY ONLY <1>12, <1>14
  <2>3. /\ Len(b \o last) = 15 + 7
        /\ \A i \in 1 .. 15 : (b \o last)[i] = b[i]
        /\ \A i \in 1 .. 7 : (b \o last)[15 + i] = last[i]
    <3>1. /\ Len(b \o last) = Len(b) + Len(last)
          /\ \A i \in 1 .. Len(b) : (b \o last)[i] = b[i]
          /\ \A i \in 1 .. Len(last) : (b \o last)[Len(b) + i] = last[i]
      BY ONLY <2>1, ConcatParts
    <3> QED BY ONLY <2>2, <3>1
  <2>4. ASSUME NEW i \in 1 .. 11 PROVE (b \o last)[11 + i] = Second[i]
    <3>1. CASE i <= 4
      <4>1. i \in 1 .. 4 /\ 11 + i \in 1 .. 15
        BY <3>1
      <4>2. (b \o last)[11 + i] = b[11 + i]
        BY ONLY <2>3, <4>1
      <4> QED BY <1>14, <4>1, <4>2
    <3>2. CASE ~(i <= 4)
      <4>1. PICK j \in 1 .. 7 : i = 4 + j
        <5>1. i - 4 \in 1 .. 7 /\ i = 4 + (i - 4)
          BY <3>2
        <5> QED BY <5>1
      <4>2. 11 + i = 15 + j
        BY <4>1
      <4> QED BY <1>12, <2>3, <4>1, <4>2
    <3> QED BY <3>1, <3>2
  <2>5. Len(b \o last) = 22
    BY ONLY <2>3
  <2> QED BY ONLY <2>4, <2>5
<1>16. HwInitialize = b \o last
  BY <1>5 DEF a, b, last
<1> HIDE DEF b, Second
<1> QED BY <1>10, <1>15, <1>16

LEMMA HwInitializeOrderly == Orderly(HwInitialize)
<1> DEFINE s == HwInitialize
<1>1. s \in Seq(Calls) /\ Early(s) /\ Len(s) \in Nat
  BY HwInitializeEarly
<1> HIDE DEF s
<1>2. ASSUME NEW i \in 1 .. Len(s), NEW u, s[i] = <<"start", u>>
      PROVE  i \in 3 .. 11 /\ u = Order[i - 2]
  <2>1. OfUnits(s[i]) /\ s[i] # s[1] /\ s[i] # s[2]
    BY <1>1, <1>2 DEF OfUnits, Early
  <2>2. i \notin 12 .. Len(s) /\ i # 1 /\ i # 2
    BY <1>1, <2>1 DEF Early
  <2>3. i \in 3 .. 11
    BY <1>1, <2>2
  <2> DEFINE n == i - 2
  <2>4. n \in 1 .. 9 /\ i = n + 2
    BY <2>3
  <2> HIDE DEF n
  <2>5. s[i] = <<"start", Order[n]>>
    BY <1>1, <2>4 DEF Early
  <2> QED BY <1>2, <2>3, <2>5 DEF n
<1>3. \A i, j \in 1 .. 9 : Order[i] = Order[j] => i = j
  <2>1. \A i, j \in {1, 2, 3, 4, 5, 6, 7, 8, 9} : Order[i] = Order[j] => i = j
    BY DEF Order
  <2>2. \A i \in 1 .. 9 : i \in {1, 2, 3, 4, 5, 6, 7, 8, 9}
    OBVIOUS
  <2> QED BY ONLY <2>1, <2>2
<1>4. ASSUME NEW i \in 1 .. Len(s), NEW u, s[i] = <<"start", u>>, UpIn(s, u, i) PROVE FALSE
  <2>1. PICK j \in 1 .. i - 1 : s[j] = <<"start", u>>
    BY <1>4 DEF UpIn
  <2>2. j \in 1 .. Len(s) /\ j < i
    BY <1>1, <2>1
  <2>3. i \in 3 .. 11 /\ j \in 3 .. 11 /\ Order[i - 2] = Order[j - 2]
    BY <1>2, <1>4, <2>1, <2>2
  <2>4. i - 2 \in 1 .. 9 /\ j - 2 \in 1 .. 9 /\ i - 2 # j - 2
    BY <2>2, <2>3
  <2> QED BY <1>3, <2>3, <2>4
<1>5. ASSUME NEW i \in 1 .. Len(s) + 1, NEW c \in Clocks \ Glitchless, UpIn(s, c, i)
      PROVE  UpIn(s, Source(c), i)
  <2>1. PICK j \in 1 .. i - 1 : s[j] = <<"start", c>>
    BY <1>5 DEF UpIn
  <2>2. j \in 1 .. Len(s)
    BY <1>1, <2>1
  <2>3. j \in 3 .. 11 /\ c = Order[j - 2]
    BY <1>2, <2>1, <2>2
  <2>4. j \notin {3, 4, 5}
    <3>1. Order[1] \notin Clocks /\ Order[2] \notin Clocks /\ Order[3] \notin Clocks
      BY DEF Order, Clocks, Generic
    <3> QED BY <2>3, <3>1
  <2>5. 6 <= i - 1
    BY <2>1, <2>3, <2>4
  <2>6. Source(c) \in {"xosc", "pll_sys", "pll_usb"}
    BY SourceKinds DEF Plls
  <2>7. \E k \in 1 .. 3 : Source(c) = Order[k]
    BY <2>6 DEF Order
  <2>8. \E k \in 1 .. i - 1 : s[k] = <<"start", Source(c)>>
    <3>1. PICK k \in 1 .. 3 : Source(c) = Order[k]
      BY <2>7
    <3>2. k \in 1 .. 9 /\ k + 2 \in 1 .. i - 1
      BY <2>5, <3>1
    <3> QED BY <1>1, <3>1, <3>2 DEF Early
  <2>9. ASSUME NEW k \in 1 .. Len(s)
        PROVE  s[k] \notin {<<"stop", Source(c)>>, <<"internal", Source(c)>>}
    <3>1. k \in {1, 2} \/ k \in 3 .. 11 \/ k \in 12 .. Len(s)
      BY <1>1, <2>9
    <3>2. CASE k \in {1, 2}
      <4>1. s[k] \in {<<"internal", "ref">>, <<"internal", "sys">>}
        BY <1>1, <3>2 DEF Early
      <4> QED BY <2>6, <4>1
    <3>3. CASE k \in 3 .. 11
      <4> DEFINE n == k - 2
      <4>1. n \in 1 .. 9 /\ k = n + 2
        BY <3>3
      <4> HIDE DEF n
      <4>2. s[k] = <<"start", Order[n]>>
        BY <1>1, <4>1 DEF Early
      <4> QED BY <4>2
    <3>4. CASE k \in 12 .. Len(s)
      <4>1. ~OfUnits(s[k])
        BY <1>1, <3>4 DEF Early
      <4> QED BY <4>1 DEF OfUnits
    <3> QED BY <3>1, <3>2, <3>3, <3>4
  <2> QED BY <2>8, <2>9 DEF UpIn
<1>6. Once(s)
  BY <1>4 DEF Once
<1>7. Sourced(s)
  BY <1>5 DEF Sourced
<1> QED BY <1>6, <1>7 DEF Orderly, s

\* hw_initialize is such a program: whatever is attached to what, the clocks it has
\* started run when start() has returned (hw.hpp:57-79).
THEOREM HwInitializeStartsTheClocks == Program = HwInitialize => (Spec => []StartedRuns)
BY HwInitializeOrderly, StartedClocksRun

-----------------------------------------------------------------------------
(***************************************************************************)
(* The log.  A call has been made when an earlier place of the program     *)
(* holds it; the chip then is as the call leaves it, and no later call and *)
(* no step of the hardware changes that.                                   *)
(***************************************************************************)
Before(s, a, b) == \A i \in 1 .. Len(s) : s[i] = b => \E j \in 1 .. i - 1 : s[j] = a

\* A program that sets up what it logs through before it says so: it resets a block
\* before it writes to it, and the UART, its pin and its clock are set before the
\* sink is.
SetsUp(s) ==
    /\ Before(s, <<"reset", "uart0">>, <<"uart0", "divider">>)
    /\ Before(s, <<"uart0", "divider">>, <<"uart0", "line_control">>)
    /\ \A b \in {"io_bank0", "pads_bank0"} : Before(s, <<"reset", b>>, <<"configure", "tx">>)
    /\ \A call \in {<<"uart0", "line_control">>, <<"configure", "tx">>, <<"start", "peri">>} :
           Before(s, call, <<"set_log_sink", "uart0">>)
    /\ Source("peri") \in Plls =>
           Before(s, <<"start", Source("peri")>>, <<"set_log_sink", "uart0">>)

\* A PLL can make its target exactly, with the dividers the search goes through.
PllMakes(f, p1, p2) == ((Freq["xosc"] * f) \div p1) \div p2
Reaches(p) ==
    \E f \in Fbdivs, p1 \in Postdivs, p2 \in Postdivs :
        /\ VcoMin <= Freq["xosc"] * f /\ Freq["xosc"] * f <= VcoMax
        /\ PllMakes(f, p1, p2) = Target[p]

\* What peri runs from makes the frequency the divider of the UART is computed from,
\* and the divider fits its 16 bits and 6.
Readable ==
    /\ IF Source("peri") \in Plls
       THEN Reaches(Source("peri")) /\ Target[Source("peri")] = Freq["peri"]
       ELSE Freq["xosc"] = Freq["peri"]
    /\ IntPart < 65536 /\ FracPart < 64

\* What the search keeps is one of its candidates.
BestIsOne ==
    IF best = NoSetting THEN best_margin = target_clk
    ELSE /\ best.fbdiv \in Fbdivs /\ best.postdiv1 \in Postdivs /\ best.postdiv2 \in Postdivs
         /\ best_margin = Margin(best.fbdiv, best.postdiv1, best.postdiv2)
Exact(p) ==
    params[p] # NoSetting /\ Reaches(p) =>
        PllMakes(params[p].fbdiv, params[p].postdiv1, params[p].postdiv2) = Target[p]

Made(call) == \E j \in 1 .. at - 1 : Program[j] = call
Idling == at = 1 /\ line = "enter"

Fields ==
    /\ at \in 1 .. Len(Program) + 1 /\ DOMAIN triggered = Blocks
    /\ DOMAIN pll = Plls /\ \A p \in Plls : {"held", "fbdiv", "postdiv"} \subseteq DOMAIN pll[p]
    /\ DOMAIN mux = Clocks /\ "aux" \in DOMAIN mux["peri"]
    /\ DOMAIN io = Pins /\ DOMAIN pads = Pins
    /\ {"ibaud", "fbaud", "divider"} \subseteq DOMAIN uart

BlocksInv ==
    /\ \A b \in Blocks \ Plls : /\ triggered[b] => b \notin held
                                /\ Made(<<"reset", b>>) => triggered[b]
                                /\ Here("reset", b, "wait") => triggered[b]
    /\ \A p \in Plls : Made(<<"start", p>>) => triggered[p]
    /\ \A p \in Plls, l \in {"program", "lock", "post"} : Here("start", p, l) => triggered[p]
PllInv ==
    \A p \in Plls :
        /\ Made(<<"start", p>>) \/ (\E l \in {"lock", "post"} : Here("start", p, l)) =>
               pll[p].fbdiv = params[p].fbdiv
        /\ Made(<<"start", p>>) => pll[p].postdiv = <<params[p].postdiv1, params[p].postdiv2>>
PeriInv ==
    Made(<<"start", "peri">>) \/ (\E l \in {"switched", "enable"} : Here("start", "peri", l)) =>
        mux["peri"].aux = Aux("peri")
PortInv ==
    /\ Made(<<"uart0", "divider">>) => uart.ibaud = IntPart % 65536 /\ uart.fbaud = FracPart % 64
    /\ Made(<<"uart0", "line_control">>) =>
           uart.divider = (IntPart % 65536) * 64 + (FracPart % 64)
    /\ Made(<<"configure", "tx">>) => io["tx"] = Fn["tx"] /\ ~pads["tx"].output_dis
SinkInv ==
    /\ sink => Made(<<"set_log_sink", "uart0">>)
    /\ line = "write" => sink
    /\ written > 0 => sink

\* What has been written is on the line or behind n others in the FIFO.
Queued(n) ==
    /\ n \in 0 .. Len(fifo) /\ \A i \in 1 .. n : fifo[i] = Noise
    /\ Len(terminal) + Len(fifo) - n = written
    /\ \A i \in 1 .. Len(terminal) : terminal[i] = i
    /\ \A i \in 1 .. Len(fifo) : i > n => fifo[i] = Len(terminal) + i - n

Traffic ==
    /\ fifo \in Seq(Nat) /\ terminal \in Seq(Nat) /\ written \in Nat
    /\ \E n \in Nat : Queued(n)

ChipInv == BlocksInv /\ Freed /\ PllInv /\ PeriInv /\ PortInv
CallInv == Fields /\ InLog /\ ChipInv /\ SinkInv /\ Traffic
LogInv == CallInv /\ (Idling \/ Built) /\ \A p \in Plls : Exact(p)

-----------------------------------------------------------------------------
\* The search keeps one of its candidates.
LEMMA BestIsOneNext ==
    ASSUME SearchTypeOK, BestIsOne, [SearchNext]_search
    PROVE  BestIsOne'
<1>1. UNCHANGED arguments
  BY DEF SearchNext, Continue, Enter, Turn, search
<1>2. \A f, p1, p2 : Margin(f, p1, p2)' = Margin(f, p1, p2)
  BY <1>1 DEF arguments, Margin, Distance, Out, Vco
<1>3. CASE UNCHANGED <<best, best_margin>>
  <2>1. best' = best /\ best_margin' = best_margin /\ target_clk' = target_clk
    BY <1>1, <1>3 DEF arguments
  <2>2. CASE best = NoSetting
    BY <2>1, <2>2 DEF BestIsOne
  <2>3. CASE best # NoSetting
    <3>1. PICK f, p1, p2 : f = best.fbdiv /\ p1 = best.postdiv1 /\ p2 = best.postdiv2
      OBVIOUS
    <3>2. f \in Fbdivs /\ p1 \in Postdivs /\ p2 \in Postdivs /\ best_margin = Margin(f, p1, p2)
      BY <2>3, <3>1 DEF BestIsOne
    <3>3. best_margin' = Margin(f, p1, p2)'
      BY <1>2, <2>1, <3>2
    <3>4. f = best'.fbdiv /\ p1 = best'.postdiv1 /\ p2 = best'.postdiv2 /\ best' # NoSetting
      BY <2>1, <2>3, <3>1
    <3>5. best_margin' = Margin(best.fbdiv, best.postdiv1, best.postdiv2)'
      BY <3>3, <3>4
    <3>6. Fbdivs' = Fbdivs /\ Postdivs' = Postdivs
      BY DEF Fbdivs, Postdivs
    <3> QED BY <3>2, <3>4, <3>5, <3>6 DEF BestIsOne
  <2> QED BY <2>2, <2>3
<1>4. CASE ~UNCHANGED <<best, best_margin>>
  <2>1. /\ pc = "inner"
        /\ best' = [actual_clk |-> Out(fbdiv, pd1, pd2), fbdiv |-> fbdiv,
                    postdiv1 |-> pd1, postdiv2 |-> pd2]
        /\ best_margin' = Margin(fbdiv, pd1, pd2)
    BY <1>4 DEF SearchNext, Continue, Enter, Turn, Try, search
  <2>2. fbdiv \in Fbdivs /\ pd1 \in Postdivs /\ pd2 \in Postdivs /\ fbdiv # 0
    BY <2>1, PllAssumption, SMT DEF SearchTypeOK, Fbdivs
  <2>3. PICK f, p1, p2 : f = fbdiv /\ p1 = pd1 /\ p2 = pd2
    OBVIOUS
  <2>4. best_margin' = Margin(f, p1, p2)'
    BY <1>2, <2>1, <2>3
  <2>5. best'.fbdiv = f /\ best'.postdiv1 = p1 /\ best'.postdiv2 = p2 /\ best' # NoSetting
    BY <2>1, <2>2, <2>3 DEF NoSetting
  <2>6. Fbdivs' = Fbdivs /\ Postdivs' = Postdivs
    BY DEF Fbdivs, Postdivs
  <2>7. best_margin' = Margin(best.fbdiv, best.postdiv1, best.postdiv2)'
    BY <2>4, <2>5
  <2> QED BY <2>2, <2>3, <2>5, <2>6, <2>7 DEF BestIsOne
<1> QED BY <1>3, <1>4

KeptInv == pc = "returned" \/ BestIsOne

LEMMA KeptInvNext == SearchInv /\ KeptInv /\ [Next]_vars => KeptInv'
<1> SUFFICES ASSUME SearchInv, KeptInv, [Next]_vars PROVE KeptInv'
  OBVIOUS
<1>1. CASE pc = "returned" /\ UNCHANGED search
  BY <1>1 DEF search, KeptInv
<1>2. CASE pc # "returned" /\ (SearchNext \/ UNCHANGED search)
  BY <1>2, BestIsOneNext DEF SearchInv, KeptInv
<1>3. CASE SysSettings
  BY <1>3 DEF SysSettings, KeptInv, BestIsOne
<1>4. CASE UsbSettings
  BY <1>4 DEF UsbSettings, KeptInv
<1>5. Next => SearchNext \/ SysSettings \/ UsbSettings \/ UNCHANGED search
  BY DEF Next, Compile, Processor, UartSends, RestartCore
<1>6. SearchNext => pc # "returned"
  BY DEF SearchNext, Continue, Enter, Turn
<1> QED BY <1>1, <1>2, <1>3, <1>4, <1>5, <1>6 DEF vars

\* A setting the search returns for a PLL that can make its target makes it.
LEMMA SettingExact ==
    ASSUME SearchInv, KeptInv, NEW p \in Plls, pc = "done", Searching(p), Reaches(p),
           best # NoSetting
    PROVE  PllMakes(best.fbdiv, best.postdiv1, best.postdiv2) = Target[p]
<1>1. SearchTypeOK /\ Closest /\ BestIsOne
  BY DoneIsClosest DEF SearchInv, KeptInv
<1>2. \A f, p1, p2 : Out(f, p1, p2) = PllMakes(f, p1, p2)
  BY DEF Searching, Out, Vco, PllMakes
<1>3. PICK f \in Fbdivs, p1 \in Postdivs, p2 \in Postdivs :
          /\ VcoMin <= Freq["xosc"] * f /\ Freq["xosc"] * f <= VcoMax
          /\ PllMakes(f, p1, p2) = Target[p]
  BY DEF Reaches
<1>4. InRange(f)
  BY <1>3 DEF Searching, InRange, Vco
<1>5. target_clk = Target[p] /\ target_clk \in Nat
  BY <1>1, PllAssumption DEF Searching, SearchTypeOK
<1>6. Margin(f, p1, p2) = 0
  BY <1>2, <1>3, <1>5 DEF Margin, Distance
<1>7. best_margin <= 0
  BY <1>1, <1>4, <1>6 DEF Closest
<1> DEFINE f0 == best.fbdiv
           a0 == best.postdiv1
           b0 == best.postdiv2
<1>8. f0 \in Fbdivs /\ a0 \in Postdivs /\ b0 \in Postdivs /\ best_margin = Margin(f0, a0, b0)
  BY <1>1 DEF BestIsOne
<1> HIDE DEF f0, a0, b0
<1>9. Out(f0, a0, b0) \in Nat /\ Margin(f0, a0, b0) \in Nat
  BY <1>1, <1>8, CandidateType
<1>10. Distance(Out(f0, a0, b0)) = 0
  BY <1>7, <1>8, <1>9 DEF Margin
<1>11. Out(f0, a0, b0) = target_clk
  BY <1>5, <1>9, <1>10 DEF Distance
<1> QED BY <1>2, <1>5, <1>11 DEF f0, a0, b0

\* And the processor runs with both settings, which do not change then.
LEMMA SettingsKept ==
    ASSUME SearchInv, KeptInv, Idling \/ Built, \A p \in Plls : Exact(p), [Next]_vars
    PROVE  /\ UNCHANGED params \/ (Idling /\ UNCHANGED <<at, line>>)
           /\ (Idling \/ Built)'
           /\ \A p \in Plls : Exact(p)'
<1>1. \A p : Reaches(p)' <=> Reaches(p)
  BY DEF Reaches, PllMakes, Fbdivs, Postdivs
<1>2. CASE UNCHANGED params
  <2>1. \A p \in Plls : Exact(p)'
    BY <1>1, <1>2 DEF Exact, PllMakes
  <2>2. Built => Built'
    BY <1>2 DEF Built
  <2>3. Built \/ (UNCHANGED <<at, line>>)
    BY DEF Next, Compile, Processor, UartSends, RestartCore, Hardware, XoscSettles, PllLocks,
           MuxSwitches, vars, tree, program
  <2> QED BY <1>2, <2>1, <2>2, <2>3 DEF Idling
<1>3. ASSUME NEW p \in Plls, params[p] = NoSetting, params' = [params EXCEPT ![p] = best],
             pc = "done", Searching(p), UNCHANGED <<at, line>>
      PROVE  /\ Idling /\ UNCHANGED <<at, line>> /\ (Idling \/ Built)'
             /\ \A q \in Plls : Exact(q)'
  <2>1. ~Built
    BY <1>3 DEF Built
  <2>2. Idling /\ Idling'
    BY <1>3, <2>1 DEF Idling
  <2>3. ASSUME NEW q \in Plls PROVE Exact(q)'
    <3>1. CASE q # p \/ best = NoSetting \/ p \notin DOMAIN params
      <4>1. params'[q] = params[q]
        BY <1>3, <3>1
      <4> QED BY <1>1, <4>1 DEF Exact, PllMakes
    <3>2. CASE q = p /\ best # NoSetting /\ p \in DOMAIN params
      <4>1. params'[q] = best
        BY <1>3, <3>2
      <4>2. Reaches(q) => PllMakes(best.fbdiv, best.postdiv1, best.postdiv2) = Target[q]
        BY <1>3, <3>2, SettingExact
      <4> QED BY <1>1, <4>1, <4>2 DEF Exact, PllMakes
    <3> QED BY <3>1, <3>2
  <2> QED BY <1>3, <2>2, <2>3
<1>4. CASE SysSettings /\ UNCHANGED <<at, line>>
  BY <1>3, <1>4 DEF SysSettings, Plls
<1>5. CASE UsbSettings /\ UNCHANGED <<at, line>>
  BY <1>3, <1>5 DEF UsbSettings, Plls
<1>6. UNCHANGED params \/ ((SysSettings \/ UsbSettings) /\ UNCHANGED <<at, line>>)
  BY DEF Next, Compile, Processor, ClockCalls, UartSends, RestartCore, Restart, Hardware,
         XoscSettles, PllLocks, MuxSwitches, vars, tree, program
<1> QED BY <1>2, <1>4, <1>5, <1>6

-----------------------------------------------------------------------------
\* The call the program is at goes on, or returns.
Goes == at \in 1 .. Len(Program) /\ Proceeds

LEMMA CallAt ==
    ASSUME Fields, NEW r, NEW u, NEW l, Here(r, u, l)
    PROVE  at \in 1 .. Len(Program) /\ Program[at] = <<r, u>> /\ line = l
BY ClocksAssumption DEF Fields, Here

\* What has been made stays so, and only what returns is made anew.
LEMMA MadeNext ==
    ASSUME Goes, NEW call
    PROVE  /\ Made(call) => Made(call)'
           /\ Made(call)' => Made(call) \/ (Return /\ Program[at] = call)
<1>1. at \in Nat \ {0}
  BY ClocksAssumption DEF Goes
<1>2. CASE at' = at
  BY <1>2 DEF Made
<1>3. CASE Return
  <2>1. at' = at + 1 /\ at' - 1 = at
    BY <1>1, <1>3 DEF Return
  <2>2. Made(call) => Made(call)'
    <3>1. 1 .. at - 1 \subseteq 1 .. at
      BY <1>1
    <3> QED BY <2>1, <3>1 DEF Made
  <2>3. Made(call)' => Made(call) \/ Program[at] = call
    <3>1. \A j \in 1 .. at : j = at \/ j \in 1 .. at - 1
      BY <1>1
    <3> QED BY <2>1, <3>1 DEF Made
  <2> QED BY <1>3, <2>2, <2>3
<1> QED BY <1>2, <1>3 DEF Goes, Proceeds

\* Inside a call there is only what the call has come to.
LEMMA HereNext ==
    ASSUME Goes, NEW r, NEW u, NEW l, Here(r, u, l)', l # "enter"
    PROVE  at' = at /\ Program[at] = <<r, u>> /\ line' = l
BY DEF Goes, Proceeds, Return, Here

LEMMA StaysMade ==
    ASSUME UNCHANGED <<at, line>>
    PROVE  /\ \A call : Made(call)' <=> Made(call)
           /\ \A r, u, l : Here(r, u, l)' <=> Here(r, u, l)
BY DEF Made, Here

LEMMA MadeBefore ==
    ASSUME Fields, NEW a, NEW b, Before(Program, a, b),
           Made(b) \/ (at \in 1 .. Len(Program) /\ Program[at] = b)
    PROVE  Made(a)
<1>1. Len(Program) \in Nat
  BY ClocksAssumption
<1>2. PICK j \in 1 .. at : j \in 1 .. Len(Program) /\ Program[j] = b
  BY <1>1 DEF Fields, Made
<1>3. PICK k \in 1 .. j - 1 : Program[k] = a
  BY <1>2 DEF Before
<1>4. k \in 1 .. at - 1
  BY <1>1, <1>2, <1>3 DEF Fields
<1> QED BY <1>3, <1>4 DEF Made

\* What follows from a call having been made, in a program that sets things up first.
LEMMA SetUpMade ==
    ASSUME Fields, SetsUp(Program)
    PROVE  /\ Made(<<"uart0", "divider">>) => Made(<<"reset", "uart0">>)
           /\ Made(<<"uart0", "line_control">>) => Made(<<"uart0", "divider">>)
           /\ \A b \in {"io_bank0", "pads_bank0"} :
                  Made(<<"configure", "tx">>) => Made(<<"reset", b>>)
           /\ Made(<<"set_log_sink", "uart0">>) =>
                  /\ Made(<<"uart0", "line_control">>) /\ Made(<<"configure", "tx">>)
                  /\ Made(<<"start", "peri">>)
                  /\ Source("peri") \in Plls => Made(<<"start", Source("peri")>>)
BY MadeBefore DEF SetsUp

-----------------------------------------------------------------------------
\* The parts of the invariant, over a step of a call.
LEMMA BlocksKeep ==
    ASSUME Goes, BlocksInv,
           \A b \in Blocks \ Plls : /\ triggered'[b] => b \notin held'
                                    /\ triggered[b] => triggered'[b]
                                    /\ Program[at] = <<"reset", b>> => triggered'[b],
           \A p \in Plls : /\ triggered[p] => triggered'[p]
                           /\ Program[at] = <<"start", p>> => triggered'[p]
    PROVE  BlocksInv'
<1>1. ASSUME NEW b \in Blocks \ Plls
      PROVE  /\ (triggered[b] => b \notin held)'
             /\ (Made(<<"reset", b>>) => triggered[b])'
             /\ (Here("reset", b, "wait") => triggered[b])'
  <2>1. Made(<<"reset", b>>)' => Made(<<"reset", b>>) \/ Program[at] = <<"reset", b>>
    BY MadeNext
  <2>2. Here("reset", b, "wait")' => Program[at] = <<"reset", b>>
    BY HereNext
  <2> QED BY <2>1, <2>2 DEF BlocksInv
<1>2. ASSUME NEW p \in Plls
      PROVE  /\ (Made(<<"start", p>>) => triggered[p])'
             /\ \A l \in {"program", "lock", "post"} : (Here("start", p, l) => triggered[p])'
  <2>1. Made(<<"start", p>>)' => Made(<<"start", p>>) \/ Program[at] = <<"start", p>>
    BY MadeNext
  <2>2. \A l \in {"program", "lock", "post"} :
            Here("start", p, l)' => Program[at] = <<"start", p>>
    BY HereNext
  <2> QED BY <2>1, <2>2 DEF BlocksInv
<1> QED BY <1>1, <1>2 DEF BlocksInv

LEMMA PllKeep ==
    ASSUME Goes, PllInv, UNCHANGED params,
           \A p \in Plls : Program[at] # <<"start", p>> =>
               pll'[p].fbdiv = pll[p].fbdiv /\ pll'[p].postdiv = pll[p].postdiv,
           \A p \in Plls : Program[at] = <<"start", p>> =>
               /\ Made(<<"start", p>>) \/ Return \/ line' \in {"lock", "post"} =>
                      pll'[p].fbdiv = params[p].fbdiv
               /\ Made(<<"start", p>>) \/ Return =>
                      pll'[p].postdiv = <<params[p].postdiv1, params[p].postdiv2>>
    PROVE  PllInv'
<1> SUFFICES ASSUME NEW p \in Plls
             PROVE  /\ (Made(<<"start", p>>) \/ (\E l \in {"lock", "post"} : Here("start", p, l)))' =>
                           pll'[p].fbdiv = params'[p].fbdiv
                    /\ Made(<<"start", p>>)' =>
                           pll'[p].postdiv = <<params'[p].postdiv1, params'[p].postdiv2>>
  BY DEF PllInv
<1>1. Made(<<"start", p>>)' => Made(<<"start", p>>) \/ (Return /\ Program[at] = <<"start", p>>)
  BY MadeNext
<1>2. (\E l \in {"lock", "post"} : Here("start", p, l))' =>
          Program[at] = <<"start", p>> /\ line' \in {"lock", "post"}
  BY HereNext
<1> QED BY <1>1, <1>2 DEF PllInv

LEMMA PeriKeep ==
    ASSUME Goes, PeriInv,
           Program[at] # <<"start", "peri">> => mux'["peri"].aux = mux["peri"].aux,
           Program[at] = <<"start", "peri">> =>
               (Made(<<"start", "peri">>) \/ Return \/ line' \in {"switched", "enable"} =>
                    mux'["peri"].aux = Aux("peri"))
    PROVE  PeriInv'
<1> SUFFICES ASSUME (Made(<<"start", "peri">>)
                     \/ (\E l \in {"switched", "enable"} : Here("start", "peri", l)))'
             PROVE  mux'["peri"].aux = Aux("peri")
  BY DEF PeriInv, Aux
<1>1. Made(<<"start", "peri">>)' =>
          Made(<<"start", "peri">>) \/ (Return /\ Program[at] = <<"start", "peri">>)
  BY MadeNext
<1>2. (\E l \in {"switched", "enable"} : Here("start", "peri", l))' =>
          Program[at] = <<"start", "peri">> /\ line' \in {"switched", "enable"}
  BY HereNext
<1> QED BY <1>1, <1>2 DEF PeriInv

LEMMA PortKeep ==
    ASSUME Goes, PortInv,
           Made(<<"uart0", "divider">>) \/ Program[at] = <<"uart0", "divider">> =>
               uart'.ibaud = IntPart % 65536 /\ uart'.fbaud = FracPart % 64,
           Made(<<"uart0", "line_control">>) \/ Program[at] = <<"uart0", "line_control">> =>
               uart'.divider = (IntPart % 65536) * 64 + (FracPart % 64),
           Made(<<"configure", "tx">>) \/ Program[at] = <<"configure", "tx">> =>
               io'["tx"] = Fn["tx"] /\ ~pads'["tx"].output_dis
    PROVE  PortInv'
<1>1. \A call : Made(call)' => Made(call) \/ Program[at] = call
  BY MadeNext
<1>2. IntPart' = IntPart /\ FracPart' = FracPart /\ Fn' = Fn
  BY DEF IntPart, FracPart, Fn
<1> QED BY <1>1, <1>2 DEF PortInv

LEMMA SinkKeep ==
    ASSUME Goes, SinkInv, line' # "write", UNCHANGED <<sink, written>>
    PROVE  SinkInv'
<1>1. \A call : Made(call) => Made(call)'
  BY MadeNext
<1> QED BY <1>1 DEF SinkInv

LEMMA QueuedStays ==
    ASSUME UNCHANGED <<fifo, terminal, written>>, NEW n PROVE Queued(n)' <=> Queued(n)
BY DEF Queued

-----------------------------------------------------------------------------
\* A step of a call for the clocks.
LEMMA ClockCallKeeps ==
    ASSUME CallInv, Goes, UNCHANGED <<params, port, traffic, logger>>,
           Program[at][1] \in {"start", "stop", "internal"}, line' # "write",
           DOMAIN triggered' = Blocks,
           DOMAIN pll' = Plls, \A p \in Plls : {"held", "fbdiv", "postdiv"} \subseteq DOMAIN pll'[p],
           DOMAIN mux' = Clocks, "aux" \in DOMAIN mux'["peri"],
           BlocksInv', Freed', PllInv', PeriInv'
    PROVE  CallInv'
<1>1. at' \in 1 .. Len(Program) + 1
  BY ClocksAssumption DEF Goes, Proceeds, Return
<1>2. /\ UNCHANGED <<held, io, pads, sio, uart>> /\ UNCHANGED <<fifo, terminal>>
      /\ UNCHANGED <<sink, left, written>>
  BY DEF port, traffic, logger
<1>3. Fields'
  BY <1>1, <1>2 DEF CallInv, Fields
<1>4. PortInv'
  <2>1. Program[at] \notin {<<"uart0", "divider">>, <<"uart0", "line_control">>,
                            <<"configure", "tx">>}
    OBVIOUS
  <2> QED BY <1>2, <2>1, PortKeep DEF CallInv, ChipInv, PortInv
<1>5. SinkInv'
  BY <1>2, SinkKeep DEF CallInv
<1>6. Traffic'
  BY <1>2, QueuedStays DEF CallInv, Traffic
<1>7. InLog'
  BY DEF InLog
<1> QED BY <1>3, <1>4, <1>5, <1>6, <1>7 DEF CallInv, ChipInv

\* A step that writes the registers of the PLL p, or none.
LEMMA PllCall ==
    ASSUME CallInv, Goes, UNCHANGED <<params, port, traffic, logger>>, UNCHANGED mux,
           line' # "write", NEW p \in Plls,
           Program[at] \in {<<"start", p>>, <<"stop", p>>},
           DOMAIN pll' = Plls, \A q \in Plls \ {p} : pll'[q] = pll[q],
           {"held", "fbdiv", "postdiv"} \subseteq DOMAIN pll'[p],
           DOMAIN triggered' = Blocks, \A b \in Blocks \ {p} : triggered'[b] = triggered[b],
           triggered[p] => triggered'[p], triggered'[p] => ~pll'[p].held,
           Program[at] = <<"stop", p>> =>
               pll'[p].fbdiv = pll[p].fbdiv /\ pll'[p].postdiv = pll[p].postdiv,
           Program[at] = <<"start", p>> =>
               /\ triggered'[p]
               /\ Made(<<"start", p>>) \/ Return \/ line' \in {"lock", "post"} =>
                      pll'[p].fbdiv = params[p].fbdiv
               /\ Made(<<"start", p>>) \/ Return =>
                      pll'[p].postdiv = <<params[p].postdiv1, params[p].postdiv2>>
    PROVE  CallInv'
<1>1. BlocksInv /\ PllInv /\ PeriInv /\ Freed /\ held' = held /\ p \in Blocks
  BY UnitKinds DEF CallInv, ChipInv, port
<1>2. /\ Program[at][1] \in {"start", "stop", "internal"}
      /\ Program[at] # <<"start", "peri">>
      /\ \A b : Program[at] # <<"reset", b>>
      /\ \A q \in Plls \ {p} : Program[at] # <<"start", q>>
  BY DEF Plls
<1>3. BlocksInv'
  <2>1. ASSUME NEW b \in Blocks \ Plls
        PROVE  /\ triggered'[b] => b \notin held'
               /\ triggered[b] => triggered'[b]
               /\ Program[at] = <<"reset", b>> => triggered'[b]
    BY <1>1, <1>2 DEF BlocksInv
  <2>2. ASSUME NEW q \in Plls
        PROVE  /\ triggered[q] => triggered'[q]
               /\ Program[at] = <<"start", q>> => triggered'[q]
    BY <1>2, UnitKinds
  <2> QED BY <1>1, <2>1, <2>2, BlocksKeep
<1>4. Freed'
  BY <1>1, UnitKinds DEF Freed
<1>5. PllInv'
  <2>1. \A q \in Plls : Program[at] # <<"start", q>> =>
            pll'[q].fbdiv = pll[q].fbdiv /\ pll'[q].postdiv = pll[q].postdiv
    OBVIOUS
  <2>2. \A q \in Plls : Program[at] = <<"start", q>> =>
            /\ Made(<<"start", q>>) \/ Return \/ line' \in {"lock", "post"} =>
                   pll'[q].fbdiv = params[q].fbdiv
            /\ Made(<<"start", q>>) \/ Return =>
                   pll'[q].postdiv = <<params[q].postdiv1, params[q].postdiv2>>
    BY <1>2
  <2> QED BY <1>1, <2>1, <2>2, PllKeep
<1>6. PeriInv'
  BY <1>1, <1>2, PeriKeep
<1>7. /\ \A q \in Plls : {"held", "fbdiv", "postdiv"} \subseteq DOMAIN pll'[q]
      /\ DOMAIN mux' = Clocks /\ "aux" \in DOMAIN mux'["peri"]
  BY DEF CallInv, Fields
<1> QED BY <1>2, <1>3, <1>4, <1>5, <1>6, <1>7, ClockCallKeeps


LEMMA PllCallStep ==
    ASSUME CallInv, UNCHANGED <<params, port, traffic, logger>>, NEW p \in Plls,
           PllStart(p) \/ PllStop(p)
    PROVE  CallInv'
<1> DEFINE old == pll[p]
<1>0. /\ p \in Blocks /\ UNCHANGED mux /\ DOMAIN triggered = Blocks /\ DOMAIN pll = Plls
      /\ {"held", "fbdiv", "postdiv"} \subseteq DOMAIN old
      /\ triggered[p] => ~old.held
      /\ BlocksInv /\ PllInv /\ Fields
  BY UnitKinds DEF CallInv, ChipInv, Fields, Freed, PllStart, PllStop
<1>1. ASSUME NEW new, Write(p, new)
      PROVE  /\ DOMAIN pll' = Plls /\ \A q \in Plls \ {p} : pll'[q] = pll[q]
             /\ pll'[p] = IF old.held THEN old ELSE new
  BY <1>0, <1>1 DEF Write
<1>2. ASSUME Here("start", p, "enter"), PllStart(p) PROVE CallInv'
  <2>1. /\ at \in 1 .. Len(Program) /\ Program[at] = <<"start", p>>
        /\ at' = at /\ line' = "program"
        /\ triggered' = [triggered EXCEPT ![p] = TRUE]
        /\ pll' = [pll EXCEPT ![p] = IF Untouched(p) THEN PllOff(FALSE) ELSE @]
    BY <1>0, <1>2, CallAt DEF PllStart, Here
  <2>2. /\ DOMAIN pll' = Plls /\ \A q \in Plls \ {p} : pll'[q] = pll[q]
        /\ pll'[p] = IF Untouched(p) THEN PllOff(FALSE) ELSE old
        /\ DOMAIN triggered' = Blocks /\ \A b \in Blocks \ {p} : triggered'[b] = triggered[b]
        /\ triggered'[p]
    BY <1>0, <2>1
  <2>3. {"held", "fbdiv", "postdiv"} \subseteq DOMAIN pll'[p] /\ ~pll'[p].held
    <3>1. CASE Untouched(p)
      BY <2>2, <3>1 DEF PllOff
    <3>2. CASE ~Untouched(p)
      BY <1>0, <2>2, <3>2 DEF Untouched
    <3> QED BY <3>1, <3>2
  <2>4. Made(<<"start", p>>) =>
            /\ pll'[p].fbdiv = params[p].fbdiv
            /\ pll'[p].postdiv = <<params[p].postdiv1, params[p].postdiv2>>
    BY <1>0, <2>2 DEF BlocksInv, PllInv, Untouched
  <2>5. ~Return /\ Goes
    BY <2>1, ClocksAssumption DEF Return, Goes, Proceeds
  <2>6. /\ Program[at] = <<"start", p>> /\ line' = "program"
        /\ DOMAIN pll' = Plls /\ \A q \in Plls \ {p} : pll'[q] = pll[q]
        /\ DOMAIN triggered' = Blocks /\ \A b \in Blocks \ {p} : triggered'[b] = triggered[b]
        /\ triggered'[p]
    BY <2>1, <2>2
  <2> QED BY <1>0, <2>3, <2>4, <2>5, <2>6, PllCall
<1>3. ASSUME Here("start", p, "program"), PllStart(p) PROVE CallInv'
  <2> DEFINE new == [old EXCEPT !.fbdiv = params[p].fbdiv, !.on = TRUE, !.post = FALSE]
  <2>1. /\ at \in 1 .. Len(Program) /\ Program[at] = <<"start", p>>
        /\ at' = at /\ line' = "lock" /\ triggered' = triggered /\ Write(p, new)
    BY <1>0, <1>3, CallAt DEF PllStart, Here, GoTo
  <2>2. /\ {"held", "fbdiv", "postdiv"} \subseteq DOMAIN new /\ new.held = old.held
        /\ new.fbdiv = params[p].fbdiv /\ new.postdiv = old.postdiv
    BY <1>0
  <2>3. triggered[p] /\ ~old.held
    BY <1>0, <1>3 DEF BlocksInv
  <2> HIDE DEF new
  <2>4. DOMAIN pll' = Plls /\ pll'[p] = new /\ \A q \in Plls \ {p} : pll'[q] = pll[q]
    BY <1>1, <2>1, <2>3
  <2>5. ~Return /\ Goes
    BY <2>1, ClocksAssumption DEF Return, Goes, Proceeds
  <2>6. Made(<<"start", p>>) => old.postdiv = <<params[p].postdiv1, params[p].postdiv2>>
    BY <1>0 DEF PllInv
  <2> HIDE DEF old
  <2> QED BY <1>0, <2>1, <2>2, <2>3, <2>4, <2>5, <2>6, PllCall
<1>4. ASSUME Here("start", p, "lock"), PllStart(p) PROVE CallInv'
  <2>1. /\ at \in 1 .. Len(Program) /\ Program[at] = <<"start", p>>
        /\ at' = at /\ line' = "post" /\ triggered' = triggered /\ pll' = pll
    BY <1>0, <1>4, CallAt DEF PllStart, Here, GoTo
  <2>2. triggered[p] /\ pll[p].fbdiv = params[p].fbdiv
    BY <1>0, <1>4 DEF BlocksInv, PllInv
  <2>3. ~Return /\ Goes
    BY <2>1, ClocksAssumption DEF Return, Goes, Proceeds
  <2>4. Made(<<"start", p>>) => pll[p].postdiv = <<params[p].postdiv1, params[p].postdiv2>>
    BY <1>0 DEF PllInv
  <2> QED BY <1>0, <2>1, <2>2, <2>3, <2>4, PllCall
<1>5. ASSUME Here("start", p, "post"), PllStart(p) PROVE CallInv'
  <2> DEFINE new == [old EXCEPT !.post = TRUE,
                         !.postdiv = <<params[p].postdiv1, params[p].postdiv2>>]
  <2>1. /\ at \in 1 .. Len(Program) /\ Program[at] = <<"start", p>>
        /\ Return /\ line' = "enter" /\ triggered' = triggered /\ Write(p, new)
    BY <1>0, <1>5, CallAt DEF PllStart, Here, Return
  <2>2. /\ {"held", "fbdiv", "postdiv"} \subseteq DOMAIN new /\ new.held = old.held
        /\ new.fbdiv = old.fbdiv /\ new.postdiv = <<params[p].postdiv1, params[p].postdiv2>>
    BY <1>0
  <2>3. triggered[p] /\ ~old.held /\ old.fbdiv = params[p].fbdiv
    BY <1>0, <1>5 DEF BlocksInv, PllInv
  <2> HIDE DEF new
  <2>4. DOMAIN pll' = Plls /\ pll'[p] = new /\ \A q \in Plls \ {p} : pll'[q] = pll[q]
    BY <1>1, <2>1, <2>3
  <2>5. Goes
    BY <2>1 DEF Goes, Proceeds
  <2> HIDE DEF old
  <2> QED BY <1>0, <2>1, <2>2, <2>3, <2>4, <2>5, PllCall
<1>6. ASSUME PllStop(p) PROVE CallInv'
  <2> DEFINE new == [old EXCEPT !.on = FALSE, !.lock = FALSE, !.post = FALSE]
  <2>1. /\ at \in 1 .. Len(Program) /\ Program[at] = <<"stop", p>>
        /\ Return /\ line' = "enter" /\ triggered' = triggered /\ Write(p, new)
    BY <1>0, <1>6, CallAt DEF PllStop, Return
  <2>2. /\ {"held", "fbdiv", "postdiv"} \subseteq DOMAIN new /\ new.held = old.held
        /\ new.fbdiv = old.fbdiv /\ new.postdiv = old.postdiv
    BY <1>0
  <2> HIDE DEF new
  <2>3. /\ DOMAIN pll' = Plls /\ \A q \in Plls \ {p} : pll'[q] = pll[q]
        /\ pll'[p] = old \/ pll'[p] = new
    BY <1>1, <2>1
  <2>4. /\ {"held", "fbdiv", "postdiv"} \subseteq DOMAIN pll'[p] /\ pll'[p].held = old.held
        /\ pll'[p].fbdiv = old.fbdiv /\ pll'[p].postdiv = old.postdiv
    BY <1>0, <2>2, <2>3
  <2>5. Goes
    BY <2>1 DEF Goes, Proceeds
  <2> QED BY <1>0, <2>1, <2>3, <2>4, <2>5, PllCall
<1> QED BY <1>2, <1>3, <1>4, <1>5, <1>6 DEF PllStart

\* A call for a clock or for the oscillator, which leaves the PLLs alone.
LEMMA ClockCall ==
    ASSUME CallInv, Goes, UNCHANGED <<params, port, traffic, logger>>, UNCHANGED <<pll, triggered>>,
           line' # "write", NEW c \in Clocks \cup {"xosc"},
           Program[at] \in {<<"start", c>>, <<"stop", c>>, <<"internal", c>>},
           DOMAIN mux' = Clocks, "aux" \in DOMAIN mux'["peri"],
           Program[at] # <<"start", "peri">> => mux'["peri"].aux = mux["peri"].aux,
           Program[at] = <<"start", "peri">> =>
               (Made(<<"start", "peri">>) \/ Return \/ line' \in {"switched", "enable"} =>
                    mux'["peri"].aux = Aux("peri"))
    PROVE  CallInv'
<1>1. /\ BlocksInv /\ Freed /\ PllInv /\ PeriInv /\ held' = held
      /\ pll' = pll /\ triggered' = triggered /\ params' = params
  BY DEF CallInv, ChipInv, port
<1>2. /\ Program[at][1] \in {"start", "stop", "internal"}
      /\ \A b : Program[at] # <<"reset", b>>
      /\ \A p \in Plls : Program[at] # <<"start", p>>
  BY UnitKinds
<1>3. BlocksInv'
  BY <1>1, <1>2, BlocksKeep DEF BlocksInv
<1>4. Freed'
  BY <1>1 DEF Freed
<1>5. PllInv'
  BY <1>1, <1>2, PllKeep
<1>6. PeriInv'
  BY <1>1, PeriKeep
<1>7. /\ DOMAIN triggered' = Blocks /\ DOMAIN pll' = Plls
      /\ \A p \in Plls : {"held", "fbdiv", "postdiv"} \subseteq DOMAIN pll'[p]
  BY <1>1 DEF CallInv, Fields
<1> QED BY <1>2, <1>3, <1>4, <1>5, <1>6, <1>7, ClockCallKeeps

LEMMA XoscCallStep ==
    ASSUME CallInv, UNCHANGED <<params, port, traffic, logger>>, XoscStart \/ XoscStop
    PROVE  CallInv'
<1>1. Fields /\ UNCHANGED <<pll, mux>>
  BY DEF CallInv, XoscStart, XoscStop
<1>2. /\ at \in 1 .. Len(Program) /\ Program[at] \in {<<"start", "xosc">>, <<"stop", "xosc">>}
  BY <1>1, CallAt DEF XoscStart, XoscStop
<1>3. triggered' = triggered /\ line' # "write" /\ Goes
  BY <1>2 DEF XoscStart, XoscStop, GoTo, Return, Goes, Proceeds
<1>4. Program[at] # <<"start", "peri">>
  BY <1>2
<1> QED BY <1>1, <1>2, <1>3, <1>4, ClockCall DEF Fields

\* The registers of the clock c, written or left.
LEMMA MuxCall ==
    ASSUME CallInv, NEW c \in Clocks, NEW new,
           mux' = [mux EXCEPT ![c] = new], c = "peri" => "aux" \in DOMAIN new
    PROVE  /\ DOMAIN mux' = Clocks /\ "aux" \in DOMAIN mux'["peri"]
           /\ mux'["peri"].aux = IF c = "peri" THEN new.aux ELSE mux["peri"].aux
<1>1. DOMAIN mux = Clocks /\ "peri" \in Clocks /\ "aux" \in DOMAIN mux["peri"]
  BY DEF CallInv, Fields, Clocks
<1> QED BY <1>1

LEMMA ClkCallStep ==
    ASSUME CallInv, UNCHANGED <<params, port, traffic, logger>>, NEW c \in Clocks,
           ClkStart(c) \/ ClkStop(c) \/ (c \in Glitchless /\ Internal(c))
    PROVE  CallInv'
<1> DEFINE old == mux[c]
<1>0. /\ Fields /\ PeriInv /\ UNCHANGED pll /\ DOMAIN mux = Clocks
      /\ "aux" \in DOMAIN mux["peri"] /\ "peri" \notin Glitchless
  BY DEF CallInv, ChipInv, Fields, ClkStart, ClkStop, Internal, Glitchless
<1>1. ASSUME NEW r \in {"start", "stop", "internal"}, NEW l, Here(r, c, l),
             (at' = at /\ UNCHANGED triggered /\ line' # "write") \/ Return,
             NEW new, mux' = [mux EXCEPT ![c] = new], c = "peri" => "aux" \in DOMAIN new,
             r # "start" => (c = "peri" => new.aux = old.aux),
             r = "start" /\ c = "peri" =>
                 (Made(<<"start", "peri">>) \/ Return \/ line' \in {"switched", "enable"} =>
                      new.aux = Aux("peri"))
      PROVE  CallInv'
  <2>1. at \in 1 .. Len(Program) /\ Program[at] = <<r, c>>
    BY <1>0, <1>1, CallAt
  <2>2. line' # "write" /\ triggered' = triggered /\ Goes
    BY <1>1, <2>1 DEF Return, Goes, Proceeds
  <2>3. /\ DOMAIN mux' = Clocks /\ "aux" \in DOMAIN mux'["peri"]
        /\ mux'["peri"].aux = IF c = "peri" THEN new.aux ELSE mux["peri"].aux
    BY <1>1, MuxCall
  <2>4. Program[at] \in {<<"start", c>>, <<"stop", c>>, <<"internal", c>>}
    BY <2>1
  <2>5. Program[at] # <<"start", "peri">> => mux'["peri"].aux = mux["peri"].aux
    BY <1>1, <2>1, <2>3
  <2>6. Program[at] = <<"start", "peri">> =>
            (Made(<<"start", "peri">>) \/ Return \/ line' \in {"switched", "enable"} =>
                 mux'["peri"].aux = Aux("peri"))
    BY <1>1, <2>1, <2>3
  <2>7. UNCHANGED <<pll, triggered>>
    BY <1>0, <2>2
  <2>8. "aux" \in DOMAIN mux'["peri"] /\ DOMAIN mux' = Clocks
    BY <2>3
  <2> QED BY <2>2, <2>4, <2>5, <2>6, <2>7, <2>8, ClockCall
<1>2. ASSUME NEW r \in {"start", "stop", "internal"}, NEW l, Here(r, c, l),
             (at' = at /\ UNCHANGED triggered /\ line' # "write") \/ Return, UNCHANGED mux,
             r = "start" /\ c = "peri" =>
                 (Made(<<"start", "peri">>) \/ Return \/ line' \in {"switched", "enable"} =>
                      old.aux = Aux("peri"))
      PROVE  CallInv'
  <2>1. at \in 1 .. Len(Program) /\ Program[at] = <<r, c>>
    BY <1>0, <1>2, CallAt
  <2>2. line' # "write" /\ triggered' = triggered /\ Goes
    BY <1>2, <2>1 DEF Return, Goes, Proceeds
  <2>3. Program[at] \in {<<"start", c>>, <<"stop", c>>, <<"internal", c>>}
    BY <2>1
  <2>4. Program[at] = <<"start", "peri">> =>
            (Made(<<"start", "peri">>) \/ Return \/ line' \in {"switched", "enable"} =>
                 mux'["peri"].aux = Aux("peri"))
    BY <1>2, <2>1
  <2>5. UNCHANGED <<pll, triggered>> /\ mux' = mux
    BY <1>0, <1>2, <2>2
  <2> HIDE DEF old
  <2> QED BY <1>0, <2>2, <2>3, <2>4, <2>5, ClockCall
<1>3. Made(<<"start", "peri">>) => mux["peri"].aux = Aux("peri")
  BY <1>0 DEF PeriInv
<1>4. \A l \in {"switched", "enable"} : Here("start", "peri", l) => mux["peri"].aux = Aux("peri")
  BY <1>0 DEF PeriInv
<1>5. ASSUME Here("start", c, "enter"), Parks(c),
             mux' = [mux EXCEPT ![c].div = DivBefore(c), ![c].src = 0], GoTo("parked")
      PROVE  CallInv'
  <2> DEFINE new == [old EXCEPT !.div = DivBefore(c), !.src = 0]
  <2>1. mux' = [mux EXCEPT ![c] = new]
    BY <1>0, <1>5
  <2>2. c # "peri"
    BY <1>0, <1>5 DEF Parks
  <2> HIDE DEF new
  <2> QED BY <1>1, <1>5, <2>1, <2>2 DEF GoTo
<1>6. ASSUME Here("start", c, "parked"), GoTo("aux"), UNCHANGED mux PROVE CallInv'
  <2>1. ~Return
    BY <1>0, <1>6, CallAt, ClocksAssumption DEF Return, GoTo
  <2> QED BY <1>2, <1>3, <1>6, <2>1 DEF GoTo
<1>7. ASSUME Here("start", c, "enter"),
             mux' = [mux EXCEPT ![c].div = DivBefore(c), ![c].enable = FALSE], GoTo("aux")
      PROVE  CallInv'
  <2> DEFINE new == [old EXCEPT !.div = DivBefore(c), !.enable = FALSE]
  <2>1. mux' = [mux EXCEPT ![c] = new]
    BY <1>0, <1>7
  <2>2. c = "peri" => "aux" \in DOMAIN new /\ new.aux = old.aux
    BY <1>0
  <2>3. ~Return
    BY <1>0, <1>7, CallAt, ClocksAssumption DEF Return, GoTo
  <2> HIDE DEF new
  <2> QED BY <1>1, <1>3, <1>7, <2>1, <2>2, <2>3 DEF GoTo
<1>8. ASSUME Here("start", c, "aux"), c \in Glitchless,
             mux' = [mux EXCEPT ![c].aux = Aux(c), ![c].src = Src(c)], GoTo("switched")
      PROVE  CallInv'
  <2> DEFINE new == [old EXCEPT !.aux = Aux(c), !.src = Src(c)]
  <2>1. mux' = [mux EXCEPT ![c] = new]
    BY <1>0, <1>8
  <2>2. c # "peri"
    BY <1>0, <1>8
  <2> HIDE DEF new
  <2> QED BY <1>1, <1>8, <2>1, <2>2 DEF GoTo
<1>9. ASSUME Here("start", c, "aux"), mux' = [mux EXCEPT ![c].aux = Aux(c)], GoTo("enable")
      PROVE  CallInv'
  <2> DEFINE new == [old EXCEPT !.aux = Aux(c)]
  <2>1. mux' = [mux EXCEPT ![c] = new]
    BY <1>0, <1>9
  <2>2. c = "peri" => "aux" \in DOMAIN new /\ new.aux = Aux("peri")
    BY <1>0
  <2> HIDE DEF new
  <2> QED BY <1>1, <1>9, <2>1, <2>2 DEF GoTo
<1>10. ASSUME Here("start", c, "switched"), GoTo("enable"), UNCHANGED mux PROVE CallInv'
  BY <1>2, <1>4, <1>10 DEF GoTo
<1>11. ASSUME Here("start", c, "enable"), Return,
              mux' = [mux EXCEPT ![c].enable = TRUE, ![c].div = DivFor(c)]
       PROVE  CallInv'
  <2> DEFINE new == [old EXCEPT !.enable = TRUE, !.div = DivFor(c)]
  <2>1. mux' = [mux EXCEPT ![c] = new]
    BY <1>0, <1>11
  <2>2. c = "peri" => "aux" \in DOMAIN new /\ new.aux = old.aux
    BY <1>0
  <2> HIDE DEF new
  <2> QED BY <1>1, <1>4, <1>11, <2>1, <2>2
<1>12. ASSUME ClkStop(c) PROVE CallInv'
  <2> DEFINE new == [old EXCEPT !.enable = FALSE]
  <2>1. mux' = [mux EXCEPT ![c] = new] /\ Here("stop", c, "enter") /\ Return
    BY <1>0, <1>12 DEF ClkStop
  <2>2. c = "peri" => "aux" \in DOMAIN new /\ new.aux = old.aux
    BY <1>0
  <2> HIDE DEF new
  <2> QED BY <1>1, <2>1, <2>2
<1>13. ASSUME Here("internal", c, "enter"), c \in Glitchless,
              mux' = [mux EXCEPT ![c].src = 0], GoTo("wait")
       PROVE  CallInv'
  <2> DEFINE new == [old EXCEPT !.src = 0]
  <2>1. mux' = [mux EXCEPT ![c] = new]
    BY <1>0, <1>13
  <2>2. c # "peri"
    BY <1>0, <1>13
  <2> HIDE DEF new
  <2> QED BY <1>1, <1>13, <2>1, <2>2 DEF GoTo
<1>14. ASSUME Here("internal", c, "wait"), Return, UNCHANGED mux PROVE CallInv'
  BY <1>2, <1>14
<1>15. CASE ClkStart(c)
  BY <1>5, <1>6, <1>7, <1>8, <1>9, <1>10, <1>11, <1>15 DEF ClkStart
<1>16. CASE c \in Glitchless /\ Internal(c)
  BY <1>13, <1>14, <1>16 DEF Internal
<1> QED BY <1>12, <1>15, <1>16

-----------------------------------------------------------------------------
\* A step of a call that leaves the clocks alone.
LEMMA OtherCallKeeps ==
    ASSUME CallInv, Goes, UNCHANGED <<params, pll, mux>>,
           \A u : Program[at] # <<"start", u>>,
           DOMAIN triggered' = Blocks, \A p \in Plls : triggered'[p] = triggered[p],
           \A b \in Blocks \ Plls : /\ triggered'[b] => b \notin held'
                                    /\ triggered[b] => triggered'[b]
                                    /\ Program[at] = <<"reset", b>> => triggered'[b],
           DOMAIN io' = Pins, DOMAIN pads' = Pins,
           {"ibaud", "fbaud", "divider"} \subseteq DOMAIN uart',
           InLog', PortInv', SinkInv', Traffic'
    PROVE  CallInv'
<1>1. at' \in 1 .. Len(Program) + 1
  BY ClocksAssumption DEF Goes, Proceeds, Return
<1>2. Fields'
  BY <1>1 DEF CallInv, Fields
<1>3. BlocksInv'
  BY BlocksKeep DEF CallInv, ChipInv
<1>4. Freed'
  BY DEF CallInv, ChipInv, Freed
<1>5. PllInv'
  BY PllKeep DEF CallInv, ChipInv
<1>6. PeriInv'
  BY PeriKeep DEF CallInv, ChipInv
<1> QED BY <1>2, <1>3, <1>4, <1>5, <1>6 DEF CallInv, ChipInv

\* One that leaves the blocks and the port alone too.
LEMMA QuietCallKeeps ==
    ASSUME CallInv, Goes, UNCHANGED <<params, pll, mux, triggered, port>>,
           \A u : Program[at] # <<"start", u>> /\ Program[at] # <<"reset", u>>,
           Program[at] \notin {<<"uart0", "divider">>, <<"uart0", "line_control">>,
                               <<"configure", "tx">>},
           InLog', SinkInv', Traffic'
    PROVE  CallInv'
<1>1. /\ UNCHANGED <<held, io, pads, uart, triggered>> /\ PortInv /\ BlocksInv
      /\ DOMAIN io = Pins /\ DOMAIN pads = Pins
      /\ {"ibaud", "fbaud", "divider"} \subseteq DOMAIN uart /\ DOMAIN triggered = Blocks
  BY DEF port, CallInv, ChipInv, Fields
<1>2. PortInv'
  BY <1>1, PortKeep DEF PortInv
<1>3. \A b \in Blocks \ Plls : triggered[b] => b \notin held
  BY <1>1 DEF BlocksInv
<1> QED BY <1>1, <1>2, <1>3, OtherCallKeeps

\* What is in the FIFO and on the terminal before there is a sink.
LEMMA NotYet ==
    ASSUME SinkInv, Traffic, ~sink
    PROVE  written = 0 /\ terminal = <<>>
<1>1. written = 0
  BY DEF SinkInv, Traffic
<1>2. PICK n \in Nat : Queued(n)
  BY DEF Traffic
<1>3. Len(terminal) = 0
  BY <1>1, <1>2 DEF Queued, Traffic
<1> QED BY <1>1, <1>3 DEF Traffic

\* The blocks: io_bank0, pads_bank0 and uart0.
LEMMA BlockNames ==
    /\ "uart0" \in Blocks \ Plls /\ "io_bank0" \in Blocks \ Plls /\ "pads_bank0" \in Blocks \ Plls
BY DEF Blocks, Plls

LEMMA ResetStep ==
    ASSUME CallInv, SetsUp(Program), UNCHANGED <<params, pll, mux>>, UNCHANGED <<terminal, logger>>,
           NEW b \in Blocks \ Plls, ResetBlock(b)
    PROVE  CallInv'
<1>0. /\ Fields /\ BlocksInv /\ PortInv /\ SinkInv /\ Traffic
      /\ UNCHANGED <<sink, left, written>> /\ UNCHANGED <<terminal>>
      /\ DOMAIN triggered = Blocks /\ DOMAIN io = Pins /\ DOMAIN pads = Pins
      /\ {"ibaud", "fbaud", "divider"} \subseteq DOMAIN uart
  BY DEF CallInv, ChipInv, Fields, logger
<1>1. /\ at \in 1 .. Len(Program) /\ Program[at] = <<"reset", b>> /\ line' # "write" /\ Goes
  BY <1>0, CallAt DEF ResetBlock, Return, Goes, Proceeds
<1>2. /\ \A u : Program[at] # <<"start", u>>
      /\ \A c \in Blocks \ Plls : Program[at] = <<"reset", c>> => c = b
      /\ Program[at] \notin {<<"uart0", "divider">>, <<"uart0", "line_control">>,
                             <<"configure", "tx">>}
      /\ InLog' /\ SinkInv'
  BY <1>0, <1>1, SinkKeep DEF InLog
<1>3. ASSUME Here("reset", b, "enter"), Untouched(b),
             triggered' = [triggered EXCEPT ![b] = TRUE],
             held' = held \ {b},
             io' = IF b = "io_bank0" THEN [p \in Pins |-> 31] ELSE io,
             pads' = IF b = "pads_bank0" THEN [p \in Pins |-> PadOff] ELSE pads,
             uart' = IF b = "uart0" THEN UartOff ELSE uart,
             fifo' = IF b = "uart0" THEN <<>> ELSE fifo
      PROVE  CallInv'
  <2>1. ~Made(<<"reset", b>>)
    BY <1>0, <1>3 DEF BlocksInv, Untouched
  <2>2. /\ DOMAIN triggered' = Blocks /\ triggered'[b]
        /\ \A c \in Blocks \ {b} : triggered'[c] = triggered[c]
    BY <1>0, <1>3
  <2>3. \A c \in Blocks \ Plls : /\ triggered'[c] => c \notin held'
                                 /\ triggered[c] => triggered'[c]
                                 /\ Program[at] = <<"reset", c>> => triggered'[c]
    BY <1>0, <1>2, <1>3, <2>2 DEF BlocksInv
  <2>4. /\ DOMAIN io' = Pins /\ DOMAIN pads' = Pins
        /\ {"ibaud", "fbaud", "divider"} \subseteq DOMAIN uart'
    BY <1>0, <1>3 DEF UartOff
  <2>5. \A p \in Plls : triggered'[p] = triggered[p]
    BY <2>2, UnitKinds
  <2>6. PortInv'
    <3>1. /\ Made(<<"uart0", "divider">>) => b # "uart0"
          /\ Made(<<"uart0", "line_control">>) => b # "uart0"
          /\ Made(<<"configure", "tx">>) => b \notin {"io_bank0", "pads_bank0"}
      BY <1>0, <2>1, SetUpMade
    <3>2. /\ b # "uart0" => uart' = uart
          /\ b \notin {"io_bank0", "pads_bank0"} => io' = io /\ pads' = pads
      BY <1>3
    <3> QED BY <1>0, <1>1, <1>2, <3>1, <3>2, PortKeep DEF PortInv
  <2>7. Traffic'
    <3>1. CASE b = "uart0"
      <4>1. ~sink
        BY <1>0, <2>1, <3>1, SetUpMade DEF SinkInv
      <4>2. written = 0 /\ terminal = <<>> /\ fifo' = <<>>
        BY <1>0, <1>3, <3>1, <4>1, NotYet
      <4>3. Queued(0)'
        BY <1>0, <4>2 DEF Queued
      <4> QED BY <1>0, <4>2, <4>3 DEF Traffic
    <3>2. CASE b # "uart0"
      <4>1. UNCHANGED <<fifo, terminal, written>>
        BY <1>0, <1>3, <3>2
      <4> QED BY <1>0, <4>1, QueuedStays DEF Traffic
    <3> QED BY <3>1, <3>2
  <2> QED BY <1>1, <1>2, <2>2, <2>3, <2>4, <2>5, <2>6, <2>7, OtherCallKeeps
<1>4. ASSUME Return, UNCHANGED <<port, fifo>>, triggered[b] PROVE CallInv'
  <2>1. /\ triggered' = triggered /\ UNCHANGED <<held, io, pads, uart>>
        /\ UNCHANGED <<fifo, terminal, written>>
    BY <1>0, <1>4 DEF Return, port
  <2>2. \A c \in Blocks \ Plls : /\ triggered[c] => c \notin held
                                 /\ Program[at] = <<"reset", c>> => triggered[c]
    BY <1>0, <1>2, <1>4 DEF BlocksInv
  <2>3. PortInv'
    BY <1>0, <1>1, <1>2, <2>1, PortKeep DEF PortInv
  <2>4. Traffic'
    BY <1>0, <2>1, QueuedStays DEF Traffic
  <2> QED BY <1>0, <1>1, <1>2, <2>1, <2>2, <2>3, <2>4, OtherCallKeeps
<1>5. Here("reset", b, "wait") => triggered[b]
  BY <1>0 DEF BlocksInv
<1> QED BY <1>3, <1>4, <1>5 DEF ResetBlock, Untouched

LEMMA ConfigureStep ==
    ASSUME CallInv, SetsUp(Program), UNCHANGED <<params, pll, mux>>, UNCHANGED <<terminal, logger>>,
           NEW p \in Pins, Configure(p)
    PROVE  CallInv'
<1>0. /\ Fields /\ BlocksInv /\ PortInv /\ SinkInv /\ Traffic
      /\ UNCHANGED <<sink, left, written>> /\ UNCHANGED <<held, uart, fifo, terminal>>
      /\ DOMAIN triggered = Blocks /\ DOMAIN io = Pins /\ DOMAIN pads = Pins
      /\ {"ibaud", "fbaud", "divider"} \subseteq DOMAIN uart
      /\ Return /\ line' = "enter" /\ triggered' = triggered
  BY DEF CallInv, ChipInv, Fields, logger, Configure, Return
<1>1. /\ at \in 1 .. Len(Program) /\ Program[at] = <<"configure", p>> /\ Goes
  BY <1>0, CallAt DEF Configure, Goes, Proceeds
<1>2. /\ \A u : Program[at] # <<"start", u>> /\ Program[at] # <<"reset", u>>
      /\ Program[at] \notin {<<"uart0", "divider">>, <<"uart0", "line_control">>}
      /\ InLog' /\ SinkInv'
  BY <1>0, <1>1, SinkKeep DEF InLog
<1> DEFINE new == [pull_down |-> "pull_down" \in Flags[p], pull_up |-> "pull_down" \in Flags[p],
                   input_en |-> "input" \in Flags[p], output_dis |-> "output" \notin Flags[p]]
<1>3. /\ io' = [io EXCEPT ![p] = IF "io_bank0" \in held THEN @ ELSE Fn[p]]
      /\ pads' = [pads EXCEPT ![p] = IF "pads_bank0" \in held THEN @ ELSE new]
  BY DEF Configure
<1>4. /\ DOMAIN io' = Pins /\ DOMAIN pads' = Pins
      /\ io'[p] = IF "io_bank0" \in held THEN io[p] ELSE Fn[p]
      /\ pads'[p] = IF "pads_bank0" \in held THEN pads[p] ELSE new
      /\ \A q \in Pins \ {p} : io'[q] = io[q] /\ pads'[q] = pads[q]
  <2> HIDE DEF new
  <2> QED BY <1>0, <1>3
<1>5. PortInv'
  <2>1. CASE p = "tx"
    <3>1. Made(<<"reset", "io_bank0">>) /\ Made(<<"reset", "pads_bank0">>)
      <4>1. \A b \in {"io_bank0", "pads_bank0"} :
                Before(Program, <<"reset", b>>, <<"configure", "tx">>)
        BY DEF SetsUp
      <4> QED BY <1>0, <1>1, <2>1, <4>1, MadeBefore
    <3>2. "io_bank0" \notin held /\ "pads_bank0" \notin held
      BY <1>0, <3>1, BlockNames DEF BlocksInv
    <3>3. new.output_dis = FALSE
      BY <2>1 DEF Flags
    <3> HIDE DEF new
    <3>4. io'["tx"] = Fn["tx"] /\ pads'["tx"] = new
      BY <1>4, <2>1, <3>2
    <3>5. io'["tx"] = Fn["tx"] /\ ~pads'["tx"].output_dis
      BY <3>3, <3>4
    <3> QED BY <1>0, <1>1, <1>2, <3>5, PortKeep DEF PortInv
  <2>2. CASE p # "tx"
    <3>1. io'["tx"] = io["tx"] /\ pads'["tx"] = pads["tx"]
      BY <1>4, <2>2 DEF Pins
    <3>2. Program[at] # <<"configure", "tx">>
      BY <1>1, <2>2
    <3> QED BY <1>0, <1>1, <1>2, <3>1, <3>2, PortKeep DEF PortInv
  <2> QED BY <2>1, <2>2
<1>6. Traffic'
  BY <1>0, QueuedStays DEF Traffic
<1>7. \A b \in Blocks \ Plls : triggered[b] => b \notin held
  BY <1>0 DEF BlocksInv
<1> QED BY <1>0, <1>1, <1>2, <1>4, <1>5, <1>6, <1>7, OtherCallKeeps

LEMMA SetStep ==
    ASSUME CallInv, UNCHANGED <<params, pll, mux>>, UNCHANGED <<terminal, logger>>,
           NEW p \in Pins, Set(p) \/ Toggle(p)
    PROVE  CallInv'
<1>0. /\ Fields /\ BlocksInv /\ PortInv /\ SinkInv /\ Traffic
      /\ UNCHANGED <<sink, left, written>> /\ UNCHANGED <<held, io, pads, uart, fifo, terminal>>
      /\ DOMAIN triggered = Blocks /\ DOMAIN io = Pins /\ DOMAIN pads = Pins
      /\ {"ibaud", "fbaud", "divider"} \subseteq DOMAIN uart
      /\ Return /\ line' = "enter" /\ triggered' = triggered
  BY DEF CallInv, ChipInv, Fields, logger, Set, Toggle, Return
<1>1. at \in 1 .. Len(Program) /\ Program[at][1] \in {"set", "clear", "toggle"} /\ Goes
  BY <1>0, CallAt DEF Set, Toggle, Goes, Proceeds
<1>2. /\ \A u : Program[at] # <<"start", u>> /\ Program[at] # <<"reset", u>>
      /\ Program[at] \notin {<<"uart0", "divider">>, <<"uart0", "line_control">>,
                             <<"configure", "tx">>}
      /\ InLog' /\ SinkInv'
  BY <1>0, <1>1, SinkKeep DEF InLog
<1>3. PortInv'
  BY <1>0, <1>1, <1>2, PortKeep DEF PortInv
<1>4. Traffic'
  BY <1>0, QueuedStays DEF Traffic
<1>5. \A b \in Blocks \ Plls : triggered[b] => b \notin held
  BY <1>0 DEF BlocksInv
<1> QED BY <1>0, <1>1, <1>2, <1>3, <1>4, <1>5, OtherCallKeeps

LEMMA SetUartStep ==
    ASSUME CallInv, SetsUp(Program), UNCHANGED <<params, pll, mux>>, UNCHANGED <<terminal, logger>>,
           NEW step \in UartSteps, SetUart(step)
    PROVE  CallInv'
<1>0. /\ Fields /\ BlocksInv /\ PortInv /\ SinkInv /\ Traffic
      /\ UNCHANGED <<sink, left, written>> /\ UNCHANGED <<held, io, pads, fifo, terminal>>
      /\ DOMAIN triggered = Blocks /\ DOMAIN io = Pins /\ DOMAIN pads = Pins
      /\ {"ibaud", "fbaud", "divider"} \subseteq DOMAIN uart
      /\ Return /\ line' = "enter" /\ triggered' = triggered /\ uart' = UartAfter(step)
  BY DEF CallInv, ChipInv, Fields, logger, SetUart, Return
<1>1. /\ at \in 1 .. Len(Program) /\ Program[at] = <<"uart0", step>> /\ Goes
  BY <1>0, CallAt DEF SetUart, Goes, Proceeds
<1>2. /\ \A u : Program[at] # <<"start", u>> /\ Program[at] # <<"reset", u>>
      /\ Program[at] # <<"configure", "tx">>
      /\ InLog' /\ SinkInv'
  BY <1>0, <1>1, SinkKeep DEF InLog
<1>3. /\ "uart0" \in held => uart' = uart
      /\ "uart0" \notin held =>
             /\ step = "off" => uart' = [uart EXCEPT !.on = FALSE]
             /\ step = "divider" =>
                    uart' = [uart EXCEPT !.ibaud = IntPart % 65536, !.fbaud = FracPart % 64]
             /\ step = "line_control" =>
                    uart' = [uart EXCEPT !.divider = uart.ibaud * 64 + uart.fbaud, !.fifo_en = TRUE]
             /\ step = "on" => uart' = [uart EXCEPT !.on = TRUE]
  BY <1>0 DEF UartAfter
<1>4. step \in {"divider", "line_control"} => "uart0" \notin held
  <2>1. ASSUME step \in {"divider", "line_control"} PROVE Made(<<"reset", "uart0">>)
    <3>1. CASE step = "divider"
      BY <1>0, <1>1, <3>1, MadeBefore DEF SetsUp
    <3>2. CASE step = "line_control"
      <4>1. Made(<<"uart0", "divider">>)
        BY <1>0, <1>1, <3>2, MadeBefore DEF SetsUp
      <4> QED BY <1>0, <4>1, SetUpMade
    <3> QED BY <2>1, <3>1, <3>2
  <2> QED BY <1>0, <2>1, BlockNames DEF BlocksInv
<1> DEFINE i == IntPart % 65536
           f == FracPart % 64
<1>5. PortInv' /\ {"ibaud", "fbaud", "divider"} \subseteq DOMAIN uart'
  <2>0. /\ Made(<<"uart0", "divider">>) => uart.ibaud = i /\ uart.fbaud = f
        /\ Made(<<"uart0", "line_control">>) => uart.divider = i * 64 + f
    BY <1>0 DEF PortInv
  <2> HIDE DEF i, f
  <2>1. CASE step = "divider"
    <3>1. uart' = [uart EXCEPT !.ibaud = i, !.fbaud = f]
      BY <1>3, <1>4, <2>1 DEF i, f
    <3>2. /\ uart'.ibaud = i /\ uart'.fbaud = f /\ uart'.divider = uart.divider
          /\ {"ibaud", "fbaud", "divider"} \subseteq DOMAIN uart'
      BY <1>0, <3>1
    <3>3. Program[at] # <<"uart0", "line_control">>
      BY <1>1, <2>1
    <3> QED BY <1>0, <1>1, <1>2, <2>0, <3>2, <3>3, PortKeep DEF PortInv, i, f
  <2>2. CASE step = "line_control"
    <3>1. uart' = [uart EXCEPT !.divider = uart.ibaud * 64 + uart.fbaud, !.fifo_en = TRUE]
      BY <1>3, <1>4, <2>2
    <3>2. Made(<<"uart0", "divider">>)
      BY <1>0, <1>1, <2>2, MadeBefore DEF SetsUp
    <3>3. /\ uart'.ibaud = i /\ uart'.fbaud = f /\ uart'.divider = i * 64 + f
          /\ {"ibaud", "fbaud", "divider"} \subseteq DOMAIN uart'
      BY <1>0, <2>0, <3>1, <3>2
    <3> QED BY <1>0, <1>1, <1>2, <3>3, PortKeep DEF PortInv, i, f
  <2>3. CASE step \in {"off", "on"}
    <3>1. \/ uart' = uart \/ uart' = [uart EXCEPT !.on = FALSE]
          \/ uart' = [uart EXCEPT !.on = TRUE]
      BY <1>3, <2>3
    <3>2. /\ uart'.ibaud = uart.ibaud /\ uart'.fbaud = uart.fbaud /\ uart'.divider = uart.divider
          /\ {"ibaud", "fbaud", "divider"} \subseteq DOMAIN uart'
      BY <1>0, <3>1
    <3>3. Program[at] \notin {<<"uart0", "divider">>, <<"uart0", "line_control">>}
      BY <1>1, <2>3
    <3> QED BY <1>0, <1>1, <1>2, <2>0, <3>2, <3>3, PortKeep DEF PortInv, i, f
  <2> QED BY <2>1, <2>2, <2>3 DEF UartSteps
<1>6. Traffic'
  BY <1>0, QueuedStays DEF Traffic
<1>7. \A b \in Blocks \ Plls : triggered[b] => b \notin held
  BY <1>0 DEF BlocksInv
<1>8. /\ \A u : Program[at] # <<"start", u>>
      /\ \A b \in Blocks \ Plls : /\ triggered'[b] => b \notin held'
                                  /\ triggered[b] => triggered'[b]
                                  /\ Program[at] = <<"reset", b>> => triggered'[b]
      /\ DOMAIN triggered' = Blocks /\ \A p \in Plls : triggered'[p] = triggered[p]
      /\ DOMAIN io' = Pins /\ DOMAIN pads' = Pins
  BY <1>0, <1>2, <1>7
<1> QED BY <1>1, <1>2, <1>5, <1>6, <1>8, OtherCallKeeps

-----------------------------------------------------------------------------
\* The calls of the log.
LEMMA SetLogSinkStep ==
    ASSUME CallInv, UNCHANGED <<params, pll, mux, port>>, UNCHANGED terminal, SetLogSink
    PROVE  CallInv'
<1>0. /\ Fields /\ SinkInv /\ Traffic /\ Return /\ line' = "enter" /\ triggered' = triggered
      /\ UNCHANGED <<written, fifo, terminal>> /\ sink'
  BY DEF CallInv, SetLogSink, Return
<1>1. /\ at \in 1 .. Len(Program) /\ Program[at] = <<"set_log_sink", "uart0">> /\ Goes
  BY <1>0, CallAt DEF SetLogSink, Goes, Proceeds
<1>2. Made(<<"set_log_sink", "uart0">>)'
  <2>1. at \in 1 .. at' - 1
    BY <1>0, <1>1, ClocksAssumption DEF Return
  <2> QED BY <1>1, <2>1 DEF Made
<1>3. SinkInv' /\ InLog'
  BY <1>0, <1>2 DEF SinkInv, InLog
<1>4. Traffic'
  BY <1>0, QueuedStays DEF Traffic
<1>5. /\ \A u : Program[at] # <<"start", u>> /\ Program[at] # <<"reset", u>>
      /\ Program[at] \notin {<<"uart0", "divider">>, <<"uart0", "line_control">>,
                             <<"configure", "tx">>}
  BY <1>1
<1> QED BY <1>0, <1>1, <1>3, <1>4, <1>5, QuietCallKeeps

LEMMA LogCallStep ==
    ASSUME CallInv, UNCHANGED <<params, pll, mux, port>>, UNCHANGED terminal,
           (\E n \in Lengths : LogBegin(n)) \/ LogEnd
    PROVE  CallInv'
<1>0. /\ Fields /\ SinkInv /\ Traffic /\ InLog /\ triggered' = triggered
      /\ UNCHANGED <<sink, written, fifo, terminal>>
      /\ (line' = "write" /\ at' = at /\ sink) \/ (line' = "enter" /\ Return)
  BY DEF CallInv, LogBegin, LogEnd, Return, GoTo, logger
<1>1. at \in 1 .. Len(Program) /\ Program[at][1] = "log"
  <2>1. CASE LogEnd
    BY <1>0, <2>1 DEF LogEnd, InLog
  <2>2. ASSUME NEW n \in Lengths, LogBegin(n)
        PROVE  at \in 1 .. Len(Program) /\ Program[at][1] = "log"
    <3>1. Here("log", n, "enter")
      BY <2>2 DEF LogBegin
    <3> QED BY <1>0, <3>1, CallAt
  <2> QED BY <2>1, <2>2
<1>2. Goes /\ InLog'
  BY <1>0, <1>1 DEF Goes, Proceeds, InLog
<1>3. SinkInv'
  BY <1>0, <1>2, MadeNext DEF SinkInv
<1>4. Traffic'
  BY <1>0, QueuedStays DEF Traffic
<1>5. /\ \A u : Program[at] # <<"start", u>> /\ Program[at] # <<"reset", u>>
      /\ Program[at] \notin {<<"uart0", "divider">>, <<"uart0", "line_control">>,
                             <<"configure", "tx">>}
  BY <1>1
<1> QED BY <1>0, <1>2, <1>3, <1>4, <1>5, QuietCallKeeps

\* A step that is none of the program's, or one of the loop in blocking_write, leaves
\* what has been made as it is.
LEMMA StandsStill ==
    ASSUME CallInv, UNCHANGED <<params, port>>, UNCHANGED <<at, line, triggered>>,
           DOMAIN pll' = Plls,
           \A p \in Plls : /\ {"held", "fbdiv", "postdiv"} \subseteq DOMAIN pll'[p]
                           /\ pll'[p].held = pll[p].held
                           /\ pll'[p].fbdiv = pll[p].fbdiv /\ pll'[p].postdiv = pll[p].postdiv,
           DOMAIN mux' = Clocks, "aux" \in DOMAIN mux'["peri"],
           mux'["peri"].aux = mux["peri"].aux,
           SinkInv', Traffic'
    PROVE  CallInv'
<1>1. UNCHANGED <<held, io, pads, uart>>
  BY DEF port
<1>2. /\ \A call : Made(call)' <=> Made(call)
      /\ \A r, u, l : Here(r, u, l)' <=> Here(r, u, l)
  BY StaysMade
<1>3. Fields' /\ InLog' /\ Freed'
  BY <1>1 DEF CallInv, ChipInv, Fields, InLog, Freed
<1>4. BlocksInv'
  BY <1>1, <1>2 DEF CallInv, ChipInv, BlocksInv
<1>5. PllInv'
  BY <1>2 DEF CallInv, ChipInv, PllInv
<1>6. PeriInv'
  <2>1. Aux("peri")' = Aux("peri")
    BY DEF Aux
  <2> QED BY <1>2, <2>1 DEF CallInv, ChipInv, PeriInv
<1>7. PortInv'
  <2>1. IntPart' = IntPart /\ FracPart' = FracPart /\ Fn' = Fn
    BY DEF IntPart, FracPart, Fn
  <2> QED BY <1>1, <1>2, <2>1 DEF CallInv, ChipInv, PortInv
<1> QED BY <1>3, <1>4, <1>5, <1>6, <1>7 DEF CallInv, ChipInv

\* What follows once there is a sink.
LEMMA SunkMade ==
    ASSUME CallInv, SetsUp(Program), sink
    PROVE  /\ Made(<<"uart0", "line_control">>) /\ Made(<<"configure", "tx">>)
           /\ Made(<<"start", "peri">>)
           /\ Source("peri") \in Plls => Made(<<"start", Source("peri")>>)
           /\ triggered["uart0"] /\ "uart0" \notin held
<1>1. Fields /\ BlocksInv /\ Made(<<"set_log_sink", "uart0">>)
  BY DEF CallInv, ChipInv, SinkInv
<1>2. Made(<<"reset", "uart0">>)
  BY <1>1, SetUpMade
<1> QED BY <1>1, <1>2, SetUpMade, BlockNames DEF BlocksInv

LEMMA WriteByteStep ==
    ASSUME CallInv, SetsUp(Program), UNCHANGED <<params, pll, mux, port>>, UNCHANGED terminal,
           WriteByte
    PROVE  CallInv'
<1>0. /\ SinkInv /\ Traffic /\ UNCHANGED <<at, line, triggered>> /\ line = "write"
      /\ ~TxFull /\ fifo' = Stored(written + 1) /\ written' = written + 1 /\ sink' = sink
      /\ fifo \in Seq(Nat) /\ terminal \in Seq(Nat) /\ written \in Nat
  BY DEF CallInv, WriteByte, program, Traffic
<1>1. sink /\ "uart0" \notin held
  BY <1>0, SunkMade DEF SinkInv
<1>2. fifo' = Append(fifo, written + 1)
  BY <1>0, <1>1 DEF TxFull, Stored
<1>3. /\ fifo' \in Seq(Nat) /\ Len(fifo') = Len(fifo) + 1
      /\ \A i \in 1 .. Len(fifo) : fifo'[i] = fifo[i]
      /\ fifo'[Len(fifo) + 1] = written + 1
      /\ Len(fifo) \in Nat /\ Len(terminal) \in Nat
  <2>1. PICK v \in Nat : v = written + 1
    BY <1>0
  <2>2. fifo \in Seq(Nat) /\ fifo' = Append(fifo, v) /\ terminal \in Seq(Nat)
    BY <1>0, <1>2, <2>1
  <2>3. /\ fifo' \in Seq(Nat) /\ Len(fifo') = Len(fifo) + 1
        /\ \A i \in 1 .. Len(fifo) : fifo'[i] = fifo[i]
        /\ fifo'[Len(fifo) + 1] = v
        /\ Len(fifo) \in Nat /\ Len(terminal) \in Nat
    BY ONLY <2>2
  <2> QED BY <2>1, <2>3
<1>4. PICK n \in Nat : Queued(n)
  BY <1>0 DEF Traffic
<1>5. Queued(n)'
  <2>0. /\ n \in 0 .. Len(fifo) /\ \A i \in 1 .. n : fifo[i] = Noise
        /\ Len(terminal) + Len(fifo) - n = written
    BY <1>4 DEF Queued
  <2>1. n \in 0 .. Len(fifo') /\ \A i \in 1 .. n : fifo'[i] = Noise
    <3>1. \A i \in 1 .. n : i \in 1 .. Len(fifo)
      BY <1>3, <2>0
    <3> QED BY <1>3, <2>0, <3>1
  <2>10. PICK k \in Nat, m \in Nat, w \in Nat : k = Len(terminal) /\ m = Len(fifo) /\ w = written
    BY <1>0, <1>3
  <2>11. /\ Len(terminal') = k /\ Len(fifo') = m + 1 /\ written' = w + 1
        /\ fifo'[m + 1] = w + 1 /\ k + m - n = w
    BY <1>0, <1>3, <2>0, <2>10
  <2>2. Len(terminal') + Len(fifo') - n = written'
    BY ONLY n \in Nat, <2>10, <2>11
  <2>3. ASSUME NEW i \in 1 .. Len(fifo'), i > n PROVE fifo'[i] = Len(terminal') + i - n
    <3>1. CASE i \in 1 .. Len(fifo)
      BY <1>3, <1>4, <2>3, <3>1 DEF Queued
    <3>2. CASE i = Len(fifo) + 1
      <4>1. i = m + 1 /\ fifo'[i] = w + 1
        BY <2>10, <2>11, <3>2
      <4>2. k + (m + 1) - n = w + 1
        BY ONLY n \in Nat, <2>10, <2>11
      <4> QED BY <2>11, <4>1, <4>2
    <3> QED BY <1>0, <1>3, <2>3, <3>1, <3>2
  <2>4. \A i \in 1 .. Len(terminal') : terminal'[i] = i
    BY <1>4 DEF Queued
  <2> QED BY <2>1, <2>2, <2>3, <2>4 DEF Queued, Noise
<1>6. Traffic'
  BY <1>0, <1>3, <1>5 DEF Traffic
<1>7. SinkInv'
  BY <1>0, <1>1, StaysMade DEF SinkInv
<1> QED BY <1>0, <1>6, <1>7, StandsStill DEF CallInv, Fields

-----------------------------------------------------------------------------
\* What peri runs at when the program has made it run.
LEMMA PeriRate ==
    ASSUME CallInv, SetsUp(Program), Readable, \A p \in Plls : Exact(p), Built, sink
    PROVE  ClockRate("peri") = Freq["peri"]
<1>1. /\ Made(<<"start", "peri">>)
      /\ Source("peri") \in Plls => Made(<<"start", Source("peri")>>)
  BY SunkMade
<1>2. mux["peri"].aux = Aux("peri")
  BY <1>1 DEF CallInv, ChipInv, PeriInv
<1>3. Source("peri") \in Plls \cup {"xosc"}
  BY SourceKinds DEF Clocks, Glitchless
<1> DEFINE s == Source("peri")
<1>4. AuxInput("peri", mux["peri"].aux) = s
  BY <1>2 DEF Source
<1> HIDE DEF s
<1>5. s \in Plls \cup {"xosc"} /\ s # "sys"
  BY <1>3 DEF s, Plls
<1>6. ClockRate("peri") = SourceRate(s)
  BY <1>4, <1>5 DEF ClockRate
<1>7. CASE s = "xosc"
  <2>1. s \notin Plls
    BY <1>7 DEF Plls
  <2>2. SourceRate(s) = Freq["xosc"]
    BY <1>7, <2>1 DEF SourceRate
  <2> QED BY <1>6, <2>1, <2>2 DEF Readable, s
<1>8. CASE s \in Plls
  <2>1. SourceRate(s) = PllOut(s)
    <3>1. s # "xosc"
      BY <1>8 DEF Plls
    <3> QED BY <1>8, <3>1 DEF SourceRate
  <2>2. /\ pll[s].fbdiv = params[s].fbdiv
        /\ pll[s].postdiv = <<params[s].postdiv1, params[s].postdiv2>>
    BY <1>1, <1>8 DEF s, CallInv, ChipInv, PllInv
  <2>3. PllOut(s) = PllMakes(params[s].fbdiv, params[s].postdiv1, params[s].postdiv2)
    BY <2>2 DEF PllOut, PllMakes
  <2>4. Reaches(s) /\ Target[s] = Freq["peri"]
    BY <1>8 DEF Readable, s
  <2>5. PllOut(s) = Target[s]
    BY <1>8, <2>3, <2>4 DEF Exact, Built
  <2> QED BY <1>6, <2>1, <2>4, <2>5
<1> QED BY <1>5, <1>7, <1>8

\* The thousandths and their 64th parts, each a quotient: the divider of the UART is
\* within one of its steps.
Quotients(r, b, k, m, t, x, f, y) ==
    /\ r \in Nat /\ b \in Nat \ {0} /\ k \in Nat /\ m \in Nat /\ r = (16 * b) * k + m
    /\ t \in Nat /\ x \in 0 .. 16 * b - 1 /\ m * 1000 = (16 * b) * t + x
    /\ f \in Nat /\ y \in 0 .. 999 /\ t * 64 + 500 = 1000 * f + y

LEMMA DividerError ==
    ASSUME NEW r, NEW b, NEW k, NEW m, NEW t, NEW x, NEW f, NEW y, Quotients(r, b, k, m, t, x, f, y)
    PROVE  -b < (k * 64 + f) * b - 4 * r /\ (k * 64 + f) * b - 4 * r < b
<1>0. /\ r \in Nat /\ b \in Nat \ {0} /\ k \in Nat /\ m \in Nat /\ r = (16 * b) * k + m
      /\ t \in Nat /\ x \in 0 .. 16 * b - 1 /\ m * 1000 = (16 * b) * t + x
      /\ f \in Nat /\ y \in 0 .. 999 /\ t * 64 + 500 = 1000 * f + y
  BY DEF Quotients
<1> DEFINE kb == k * b
           tb == t * b
           fb == f * b
           yb == y * b
<1>1. kb \in Nat /\ tb \in Nat /\ fb \in Nat /\ yb \in Nat
  BY <1>0
<1>2. r = 16 * kb + m
  BY <1>0
<1>3. m * 1000 = 16 * tb + x
  BY <1>0
<1>4. 64 * tb + 500 * b = 1000 * fb + yb
  <2>1. (t * 64 + 500) * b = (1000 * f + y) * b
    BY <1>0
  <2>2. (t * 64 + 500) * b = 64 * tb + 500 * b
    BY <1>0
  <2>3. (1000 * f + y) * b = 1000 * fb + yb
    BY <1>0
  <2> QED BY <2>1, <2>2, <2>3
<1>5. (k * 64 + f) * b = 64 * kb + fb
  BY <1>0
<1>6. 0 <= yb /\ yb <= 999 * b
  <2>1. y <= 999 /\ b \in Nat /\ y \in Nat
    BY <1>0
  <2> QED BY <2>1
<1> HIDE DEF kb, tb, fb, yb
<1>7. (k * 64 + f) * b - 4 * r = fb - 4 * m
  <2>1. (64 * kb + fb) - 4 * (16 * kb + m) = fb - 4 * m
    BY <1>0, <1>1
  <2> QED BY ONLY <1>2, <1>5, <2>1
<1>8. -b < fb - 4 * m /\ fb - 4 * m < b
  BY <1>0, <1>1, <1>3, <1>4, <1>6
<1> QED BY <1>7, <1>8

LEMMA Legibly ==
    ASSUME CallInv, SetsUp(Program), Readable, \A p \in Plls : Exact(p), Built, sink
    PROVE  Legible
<1>1. /\ Made(<<"uart0", "line_control">>) /\ Made(<<"configure", "tx">>)
      /\ PortInv
  BY SunkMade DEF CallInv, ChipInv
<1>2. /\ io["tx"] = Fn["tx"] /\ ~pads["tx"].output_dis
      /\ uart.divider = (IntPart % 65536) * 64 + (FracPart % 64)
  BY <1>1 DEF PortInv
<1> DEFINE r == Freq["peri"]
           q == 16 * Baud
           k == r \div q
           m == r % q
           t == (m * 1000) \div q
           x == (m * 1000) % q
           f == (t * 64 + 500) \div 1000
           y == (t * 64 + 500) % 1000
<1>3. r \in Nat /\ Baud \in Nat \ {0} /\ q \in Nat \ {0}
  <2>1. Baud \in Nat \ {0}
    BY BoardAssumption
  <2>2. r \in Nat
    BY ClocksAssumption DEF Clocks
  <2> QED BY <2>1, <2>2
<1>4. IntPart = k /\ FracPart = f
  BY DEF IntPart, FracPart
<1> HIDE DEF r, q
<1>5. k \in Nat /\ m \in 0 .. q - 1 /\ r = q * k + m
  BY <1>3, DivMod
<1> HIDE DEF k, m
<1>6. t \in Nat /\ x \in 0 .. q - 1 /\ m * 1000 = q * t + x
  <2> DEFINE a == m * 1000
  <2>1. a \in Nat
    BY <1>3, <1>5
  <2> HIDE DEF a
  <2>2. a \div q \in Nat /\ a % q \in 0 .. q - 1 /\ a = q * (a \div q) + (a % q)
    BY <1>3, <2>1, DivMod
  <2> QED BY <2>2 DEF a
<1> HIDE DEF t, x
<1>7. f \in Nat /\ y \in 0 .. 999 /\ t * 64 + 500 = 1000 * f + y
  <2> DEFINE a == t * 64 + 500
  <2>1. a \in Nat
    BY <1>6
  <2> HIDE DEF a
  <2>2. a \div 1000 \in Nat /\ a % 1000 \in 0 .. 999 /\ a = 1000 * (a \div 1000) + (a % 1000)
    BY <2>1
  <2> QED BY <2>2 DEF a
<1> HIDE DEF f, y
<1>8. k < 65536 /\ f < 64
  BY <1>4 DEF Readable
<1>9. uart.divider = k * 64 + f
  <2>1. k % 65536 = k /\ f % 64 = f
    BY <1>5, <1>7, <1>8
  <2> QED BY <1>2, <1>4, <2>1
<1>10. ClockRate("peri") = r
  BY PeriRate DEF r
<1>11. /\ -Baud < (k * 64 + f) * Baud - 4 * r
       /\ (k * 64 + f) * Baud - 4 * r < Baud
  <2>1. m \in Nat
    BY <1>3, <1>5
  <2>2. r = (16 * Baud) * k + m
    BY <1>5 DEF q
  <2>3. m * 1000 = (16 * Baud) * t + x
    BY <1>6 DEF q
  <2>4. x \in 0 .. 16 * Baud - 1
    BY <1>6 DEF q
  <2>5. Quotients(r, Baud, k, m, t, x, f, y)
    BY <1>3, <1>5, <1>6, <1>7, <2>1, <2>2, <2>3, <2>4 DEF Quotients
  <2> QED BY ONLY <2>5, DividerError
<1>12. Error = (k * 64 + f) * Baud - 4 * r
  BY <1>9, <1>10 DEF Error
<1> QED BY <1>2, <1>11, <1>12 DEF Legible

LEMMA UartSendsStep ==
    ASSUME CallInv, SetsUp(Program), Readable, \A p \in Plls : Exact(p), Idling \/ Built, UartSends
    PROVE  CallInv'
<1>0. /\ SinkInv /\ Traffic /\ Fields
      /\ UNCHANGED <<at, line, triggered>> /\ UNCHANGED <<params, port, pll, mux>>
      /\ UNCHANGED <<sink, written>>
      /\ fifo # <<>> /\ fifo' = Tail(fifo)
      /\ terminal' = IF Head(fifo) = Noise THEN terminal
                     ELSE Append(terminal, IF Legible THEN Head(fifo) ELSE Noise)
      /\ fifo \in Seq(Nat) /\ terminal \in Seq(Nat) /\ written \in Nat
  BY DEF CallInv, UartSends, tree, program, logger, Traffic
<1>1. /\ Len(fifo) \in Nat \ {0} /\ Head(fifo) = fifo[1] /\ Head(fifo) \in Nat
      /\ fifo' \in Seq(Nat) /\ Len(fifo') = Len(fifo) - 1
      /\ \A i \in 1 .. Len(fifo) - 1 : fifo'[i] = fifo[i + 1]
      /\ Len(terminal) \in Nat
  BY <1>0, HeadTail
<1>2. PICK n \in Nat : Queued(n)
  BY <1>0 DEF Traffic
<1>3. PICK k \in Nat, m \in Nat, w \in Nat : k = Len(terminal) /\ m = Len(fifo) /\ w = written
  BY <1>0, <1>1
<1>4. /\ n <= m /\ \A i \in 1 .. n : fifo[i] = Noise
      /\ k + m - n = w /\ m # 0
      /\ \A i \in 1 .. k : terminal[i] = i
      /\ \A i \in 1 .. m : i > n => fifo[i] = k + i - n
      /\ Len(fifo') = m - 1 /\ \A i \in 1 .. m - 1 : fifo'[i] = fifo[i + 1]
  BY <1>1, <1>2, <1>3 DEF Queued
<1>5. CASE n > 0
  <2>1. fifo[1] = Noise
    BY <1>4, <1>5
  <2>2. terminal' = terminal
    BY <1>0, <1>1, <2>1
  <2> DEFINE o == n - 1
  <2>3. o \in Nat /\ n = o + 1
    BY <1>5
  <2> HIDE DEF o
  <2>4. o \in 0 .. m - 1 /\ k + (m - 1) - o = w
    BY <1>4, <2>3
  <2>5. ASSUME NEW i \in 1 .. o PROVE fifo'[i] = Noise
    <3>1. i \in 1 .. m - 1 /\ i + 1 \in 1 .. n
      BY <1>4, <2>3
    <3> QED BY <1>4, <3>1
  <2>6. ASSUME NEW i \in 1 .. m - 1, i > o PROVE fifo'[i] = k + i - o
    <3>1. i + 1 \in 1 .. m /\ i + 1 > n
      BY <2>3, <2>6
    <3>2. fifo'[i] = k + (i + 1) - n
      BY <1>4, <3>1
    <3> QED BY <2>3, <3>2
  <2>7. Queued(o)'
    BY <1>0, <1>3, <1>4, <2>2, <2>4, <2>5, <2>6 DEF Queued, Noise
  <2> QED
    <3>1. Traffic'
      BY <1>0, <1>1, <2>2, <2>3, <2>7 DEF Traffic
    <3>2. SinkInv'
      BY <1>0, StaysMade DEF SinkInv
    <3> QED BY <1>0, <3>1, <3>2, StandsStill DEF CallInv, Fields
<1>6. CASE n = 0
  <2>1. fifo[1] = k + 1
    BY <1>4, <1>6
  <2>2. w > 0
    BY <1>4, <1>6
  <2>3. sink
    BY <1>0, <1>3, <2>2 DEF SinkInv
  <2>4. ~Idling
    <3>1. Made(<<"set_log_sink", "uart0">>)
      BY <1>0, <2>3 DEF SinkInv
    <3> QED BY <3>1 DEF Made, Idling
  <2>5. Legible
    BY <2>3, <2>4, Legibly
  <2>6. terminal' = Append(terminal, k + 1)
    BY <1>0, <1>1, <2>1, <2>5 DEF Noise
  <2>7. /\ terminal' \in Seq(Nat) /\ Len(terminal') = k + 1
        /\ \A i \in 1 .. k : terminal'[i] = terminal[i]
        /\ terminal'[k + 1] = k + 1
    <3>1. PICK v \in Nat : v = k + 1
      OBVIOUS
    <3>2. terminal' = Append(terminal, v) /\ terminal \in Seq(Nat)
      BY <1>0, <2>6, <3>1
    <3>3. /\ terminal' \in Seq(Nat) /\ Len(terminal') = Len(terminal) + 1
          /\ \A i \in 1 .. Len(terminal) : terminal'[i] = terminal[i]
          /\ terminal'[Len(terminal) + 1] = v
      BY ONLY <3>2
    <3> QED BY <1>3, <3>1, <3>3
  <2>8. \A i \in 1 .. k + 1 : terminal'[i] = i
    <3>1. \A i \in 1 .. k + 1 : i \in 1 .. k \/ i = k + 1
      OBVIOUS
    <3> QED BY <1>4, <2>7, <3>1
  <2>9. \A i \in 1 .. m - 1 : fifo'[i] = (k + 1) + i
    <3>1. ASSUME NEW i \in 1 .. m - 1 PROVE fifo'[i] = (k + 1) + i
      <4>1. i + 1 \in 1 .. m /\ i + 1 > n
        BY <1>6
      <4> QED BY <1>4, <1>6, <4>1
    <3> QED BY <3>1
  <2>10. 0 \in 0 .. m - 1 /\ (k + 1) + (m - 1) - 0 = w
    BY <1>4, <1>6
  <2>11. Queued(0)'
    <3>1. \A i \in 1 .. m - 1 : fifo'[i] = (k + 1) + i - 0
      BY <2>9
    <3>2. Len(terminal') = k + 1 /\ Len(fifo') = m - 1 /\ written' = w
      BY <1>0, <1>3, <1>4, <2>7
    <3>3. /\ 0 \in 0 .. Len(fifo') /\ Len(terminal') + Len(fifo') - 0 = written'
          /\ \A i \in 1 .. Len(terminal') : terminal'[i] = i
      BY <2>8, <2>10, <3>2
    <3>4. \A i \in 1 .. Len(fifo') : i > 0 => fifo'[i] = Len(terminal') + i - 0
      BY <3>1, <3>2
    <3>5. \A i \in 1 .. 0 : fifo'[i] = Noise
      OBVIOUS
    <3> QED BY ONLY <3>3, <3>4, <3>5 DEF Queued, Noise
  <2> QED
    <3>1. Traffic'
      BY <1>0, <1>1, <2>7, <2>11 DEF Traffic
    <3>2. SinkInv'
      BY <1>0, StaysMade DEF SinkInv
    <3> QED BY <1>0, <3>1, <3>2, StandsStill DEF CallInv, Fields
<1> QED BY <1>5, <1>6

-----------------------------------------------------------------------------
LEMMA ChipStep == ASSUME CallInv, Hardware, UNCHANGED <<search, port, traffic, logger>> PROVE CallInv'
<1>0. /\ SinkInv /\ Traffic /\ Fields /\ UNCHANGED <<params, port>>
      /\ UNCHANGED <<at, line, triggered>>
      /\ UNCHANGED <<fifo, terminal, written, sink>>
  BY DEF CallInv, Hardware, XoscSettles, PllLocks, MuxSwitches, program, traffic, logger
<1>1. SinkInv' /\ Traffic'
  BY <1>0, StaysMade, QueuedStays DEF SinkInv, Traffic
<1>2. /\ DOMAIN pll' = Plls
      /\ \A p \in Plls : /\ {"held", "fbdiv", "postdiv"} \subseteq DOMAIN pll'[p]
                         /\ pll'[p].held = pll[p].held
                         /\ pll'[p].fbdiv = pll[p].fbdiv /\ pll'[p].postdiv = pll[p].postdiv
  <2>1. CASE pll' = pll
    BY <1>0, <2>1 DEF Fields
  <2>2. ASSUME NEW q \in Plls, pll' = [pll EXCEPT ![q].lock = TRUE]
        PROVE  /\ DOMAIN pll' = Plls
               /\ \A p \in Plls : /\ {"held", "fbdiv", "postdiv"} \subseteq DOMAIN pll'[p]
                                  /\ pll'[p].held = pll[p].held
                                  /\ pll'[p].fbdiv = pll[p].fbdiv
                                  /\ pll'[p].postdiv = pll[p].postdiv
    BY <1>0, <2>2 DEF Fields
  <2> QED BY <2>1, <2>2 DEF Hardware, XoscSettles, PllLocks, MuxSwitches
<1>3. DOMAIN mux' = Clocks /\ "aux" \in DOMAIN mux'["peri"] /\ mux'["peri"].aux = mux["peri"].aux
  <2>1. CASE mux' = mux
    BY <1>0, <2>1 DEF Fields
  <2>2. ASSUME NEW c \in Glitchless, mux' = [mux EXCEPT ![c].selected = mux[c].src]
        PROVE  /\ DOMAIN mux' = Clocks /\ "aux" \in DOMAIN mux'["peri"]
               /\ mux'["peri"].aux = mux["peri"].aux
    <3>1. c # "peri" /\ "peri" \in Clocks
      BY DEF Glitchless, Clocks
    <3> QED BY <1>0, <2>2, <3>1 DEF Fields
  <2> QED BY <2>1, <2>2 DEF Hardware, XoscSettles, PllLocks, MuxSwitches
<1> QED BY <1>0, <1>1, <1>2, <1>3, StandsStill

LEMMA CoreStep == ASSUME CallInv, RestartCore PROVE CallInv'
<1>0. /\ Fields /\ Traffic
      /\ at' = 1 /\ line' = "enter" /\ triggered' = [b \in Blocks |-> FALSE]
      /\ UNCHANGED <<params, xosc, pll, mux>> /\ UNCHANGED <<held, io, pads, sio, uart>>
      /\ fifo' = [i \in DOMAIN fifo |-> Noise] /\ terminal' = <<>>
      /\ sink' = FALSE /\ written' = 0
  BY DEF CallInv, RestartCore, Restart, port
<1>1. /\ \A call : ~Made(call)'
      /\ \A r, u, l : l # "enter" => ~Here(r, u, l)'
  BY <1>0 DEF Made, Here
<1>2. Fields' /\ InLog' /\ SinkInv'
  BY <1>0, ClocksAssumption DEF Fields, InLog, SinkInv
<1>3. BlocksInv' /\ Freed'
  BY <1>0, <1>1, UnitKinds DEF BlocksInv, Freed
<1>4. PllInv' /\ PeriInv' /\ PortInv'
  BY <1>1 DEF PllInv, PeriInv, PortInv
<1>5. Traffic'
  <2>1. /\ fifo \in Seq(Nat) /\ fifo' \in Seq(Nat) /\ Len(fifo') = Len(fifo)
        /\ \A i \in 1 .. Len(fifo) : fifo'[i] = Noise
        /\ terminal' \in Seq(Nat) /\ Len(terminal') = 0 /\ Len(fifo) \in Nat
    BY <1>0 DEF Traffic, Noise
  <2>2. PICK m \in Nat : m = Len(fifo)
    BY <2>1
  <2>3. Queued(m)'
    BY <1>0, <2>1, <2>2 DEF Queued, Noise
  <2> QED BY <1>0, <2>1, <2>2, <2>3 DEF Traffic
<1> QED BY <1>2, <1>3, <1>4, <1>5 DEF CallInv, ChipInv

\* The compiler is done before the first call, and what it computes concerns what
\* has been made.
LEMMA CompileStep ==
    ASSUME CallInv, UNCHANGED params \/ (Idling /\ UNCHANGED <<at, line>>), Compile \/ UNCHANGED vars
    PROVE  CallInv'
<1>0. /\ Fields /\ SinkInv /\ Traffic /\ UNCHANGED <<pll, mux, xosc>> /\ UNCHANGED port
      /\ UNCHANGED <<at, line, triggered>> /\ UNCHANGED <<fifo, terminal, written, sink>>
  BY DEF CallInv, Compile, vars, tree, program, traffic, logger
<1>1. SinkInv' /\ Traffic'
  BY <1>0, StaysMade, QueuedStays DEF SinkInv, Traffic
<1>2. CASE UNCHANGED params
  BY <1>0, <1>1, <1>2, StandsStill DEF Fields
<1>3. CASE Idling /\ UNCHANGED <<at, line>>
  <2>1. /\ \A call : ~Made(call)'
        /\ \A r, u, l : l # "enter" => ~Here(r, u, l)'
    BY <1>3 DEF Idling, Made, Here
  <2>2. UNCHANGED <<held, io, pads, uart>>
    BY <1>0 DEF port
  <2>3. Fields' /\ InLog' /\ Freed'
    BY <1>0, <1>3, <2>2 DEF CallInv, ChipInv, Fields, InLog, Freed
  <2>4. BlocksInv'
    BY <1>0, <2>1, <2>2 DEF CallInv, ChipInv, BlocksInv
  <2>5. PllInv' /\ PeriInv' /\ PortInv'
    BY <2>1 DEF PllInv, PeriInv, PortInv
  <2> QED BY <1>1, <2>3, <2>4, <2>5 DEF CallInv, ChipInv
<1> QED BY <1>2, <1>3

LEMMA ProcessorKeeps == ASSUME CallInv, SetsUp(Program), Processor PROVE CallInv'
<1>1. CASE ClockCalls /\ UNCHANGED <<port, fifo, logger>>
  <2>1. UNCHANGED <<params, port, traffic, logger>>
    BY <1>1 DEF Processor, ClockCalls, traffic
  <2>2. \/ XoscStart \/ XoscStop
        \/ \E p \in Plls : PllStart(p) \/ PllStop(p)
        \/ \E c \in Clocks : ClkStart(c) \/ ClkStop(c)
        \/ \E c \in Glitchless : Internal(c)
    BY <1>1 DEF ClockCalls
  <2> QED BY <2>1, <2>2, XoscCallStep, PllCallStep, ClkCallStep, UnitKinds
<1>2. CASE ~(ClockCalls /\ UNCHANGED <<port, fifo, logger>>)
  <2>1. UNCHANGED <<params, pll, mux>> /\ UNCHANGED terminal
    BY <1>2 DEF Processor
  <2>2. CASE UNCHANGED logger /\ \E b \in Blocks \ Plls : ResetBlock(b)
    BY <2>1, <2>2, ResetStep
  <2>3. CASE UNCHANGED logger /\ \E p \in Pins : Configure(p) \/ Set(p) \/ Toggle(p)
    BY <2>1, <2>3, ConfigureStep, SetStep
  <2>4. CASE UNCHANGED logger /\ \E step \in UartSteps : SetUart(step)
    BY <2>1, <2>4, SetUartStep
  <2>5. CASE UNCHANGED port /\ (SetLogSink \/ Log)
    <3>1. UNCHANGED <<params, pll, mux, port>>
      BY <2>1, <2>5
    <3> QED BY <2>1, <2>5, <3>1, SetLogSinkStep, LogCallStep, WriteByteStep DEF Log
  <2> QED BY <1>2, <2>2, <2>3, <2>4, <2>5 DEF Processor
<1> QED BY <1>1, <1>2

LEMMA LogInvInit == Init => SearchInv /\ KeptInv /\ LogInv
<1> SUFFICES ASSUME Init PROVE SearchInv /\ KeptInv /\ LogInv
  OBVIOUS
<1>1. SearchInv /\ KeptInv
  BY SearchStarts DEF Init, SearchInit, KeptInv, BestIsOne
<1>2. /\ at = 1 /\ line = "enter" /\ triggered = [b \in Blocks |-> FALSE]
      /\ pll = [p \in Plls |-> PllOff(TRUE)]
      /\ mux = [c \in Clocks |-> [src |-> 0, aux |-> 0, selected |-> 0,
                                  enable |-> FALSE, div |-> 256]]
      /\ params = [p \in Plls |-> NoSetting]
      /\ io = [p \in Pins |-> 31] /\ pads = [p \in Pins |-> PadOff] /\ uart = UartOff
      /\ fifo = <<>> /\ terminal = <<>> /\ sink = FALSE /\ written = 0
  BY DEF Init, TreeInit
<1>3. /\ \A call : ~Made(call)
      /\ \A r, u, l : l # "enter" => ~Here(r, u, l)
  BY <1>2 DEF Made, Here
<1>4. Fields
  <2>1. at \in 1 .. Len(Program) + 1 /\ "peri" \in Clocks
    BY <1>2, ClocksAssumption DEF Clocks
  <2> QED BY <1>2, <2>1 DEF Fields, PllOff, UartOff
<1>5. InLog /\ SinkInv /\ Idling /\ \A p \in Plls : Exact(p)
  BY <1>2 DEF InLog, SinkInv, Idling, Exact
<1>6. BlocksInv /\ Freed
  BY <1>2, <1>3, UnitKinds DEF BlocksInv, Freed
<1>7. PllInv /\ PeriInv /\ PortInv
  BY <1>3 DEF PllInv, PeriInv, PortInv
<1>8. Traffic
  <2>1. Queued(0)
    BY <1>2 DEF Queued
  <2> QED BY <1>2, <2>1 DEF Traffic
<1> QED BY <1>1, <1>4, <1>5, <1>6, <1>7, <1>8 DEF LogInv, CallInv, ChipInv

LEMMA LogInvNext ==
    SetsUp(Program) /\ Readable /\ SearchInv /\ KeptInv /\ LogInv /\ [Next]_vars =>
        (SearchInv /\ KeptInv /\ LogInv)'
<1> SUFFICES ASSUME SetsUp(Program), Readable, SearchInv, KeptInv, LogInv, [Next]_vars
             PROVE  (SearchInv /\ KeptInv /\ LogInv)'
  OBVIOUS
<1>1. SearchInv' /\ KeptInv'
  BY SearchGoesOn, KeptInvNext
<1>2. /\ UNCHANGED params \/ (Idling /\ UNCHANGED <<at, line>>)
      /\ (Idling \/ Built)' /\ \A p \in Plls : Exact(p)'
  BY SettingsKept DEF LogInv
<1>3. CallInv'
  <2>1. CASE Compile \/ UNCHANGED vars
    BY <1>2, <2>1, CompileStep DEF LogInv
  <2>2. CASE Processor
    BY <2>2, ProcessorKeeps DEF LogInv
  <2>3. CASE UartSends
    BY <2>3, UartSendsStep DEF LogInv
  <2>4. CASE RestartCore
    BY <2>4, CoreStep DEF LogInv
  <2>5. CASE Hardware /\ UNCHANGED <<search, port, traffic, logger>>
    BY <2>5, ChipStep DEF LogInv
  <2> QED BY <2>1, <2>2, <2>3, <2>4, <2>5 DEF Next
<1> QED BY <1>1, <1>2, <1>3 DEF LogInv

LEMMA LinedUp == LogInv => LogOnTheLine
<1> SUFFICES ASSUME LogInv PROVE LogOnTheLine
  OBVIOUS
<1>1. fifo \in Seq(Nat) /\ terminal \in Seq(Nat) /\ written \in Nat
  BY DEF LogInv, CallInv, Traffic
<1>2. PICK n \in Nat : Queued(n)
  BY DEF LogInv, CallInv, Traffic
<1>3. PICK k \in Nat, m \in Nat : k = Len(terminal) /\ m = Len(fifo)
  BY <1>1
<1>4. /\ n \in 0 .. m /\ k + m - n = written
      /\ \A i \in 1 .. k : terminal[i] = i
      /\ \A i \in 1 .. m : i > n => fifo[i] = k + i - n
  BY <1>2, <1>3 DEF Queued
<1> DEFINE s == SubSeq(fifo, n + 1, m)
           d == m - n
<1>5. s \in Seq(Nat) /\ Len(s) = d /\ \A i \in 1 .. d : s[i] = fifo[n + i]
  BY <1>1, <1>3, <1>4
<1>6. d \in Nat /\ k + d = written
  BY <1>4
<1>7. ASSUME NEW i \in 1 .. d PROVE s[i] = k + i
  <2>1. n + i \in 1 .. m /\ n + i > n
    BY <1>4
  <2>2. fifo[n + i] = k + (n + i) - n
    BY <1>4, <2>1
  <2> HIDE DEF s, d
  <2> QED BY <1>5, <2>2
<1> HIDE DEF s, d
<1>8. /\ terminal \o s \in Seq(Nat) /\ Len(terminal \o s) = written
      /\ \A i \in 1 .. k : (terminal \o s)[i] = terminal[i]
      /\ \A i \in 1 .. d : (terminal \o s)[k + i] = s[i]
  BY <1>1, <1>3, <1>5, <1>6, ConcatParts
<1>9. \A i \in 1 .. written : (terminal \o s)[i] = i
  <2> SUFFICES ASSUME NEW i \in 1 .. written PROVE (terminal \o s)[i] = i
    OBVIOUS
  <2>1. CASE i <= k
    BY <1>4, <1>8, <2>1
  <2>2. CASE ~(i <= k)
    <3>1. PICK j \in 1 .. d : i = k + j
      <4>1. i - k \in 1 .. d /\ i = k + (i - k)
        BY <1>6, <2>2
      <4> QED BY <4>1
    <3> QED BY <1>7, <1>8, <3>1
  <2> QED BY <2>1, <2>2
<1>10. terminal \o s = [i \in 1 .. written |-> i]
  <2> DEFINE t == terminal \o s
  <2>1. t \in Seq(Nat) /\ Len(t) = written /\ \A i \in 1 .. written : t[i] = i
    BY <1>8, <1>9
  <2> HIDE DEF t
  <2>2. t = [i \in 1 .. written |-> t[i]]
    BY <2>1
  <2>3. t = [i \in 1 .. written |-> i]
    BY <2>1, <2>2
  <2> QED BY <2>3 DEF t
<1>11. \A i \in 1 .. n : fifo[i] = Noise
  BY <1>2 DEF Queued
<1> QED BY <1>3, <1>4, <1>10, <1>11 DEF LogOnTheLine, s

\* What the program has logged since the last reset of the core is what the terminal
\* reads, in order and in full, but for what is still in the FIFO: in every program
\* that sets up what it logs through before it sets its sink, whatever else it does,
\* with every crystal, PLL, baud rate and FIFO for which the clock of the UART can be
\* made exactly and its divider fits (rp2-pll.hpp:29-61, pl011.cpp:50-94,
\* uart.hpp:41-54, rp2-resets.cpp).
THEOREM LogsOnTheLine == SetsUp(Program) /\ Readable => (Spec => []LogOnTheLine)
<1> SUFFICES ASSUME SetsUp(Program) /\ Readable PROVE Spec => []LogOnTheLine
  OBVIOUS
<1>1. SearchInv /\ KeptInv /\ LogInv /\ [Next]_vars => (SearchInv /\ KeptInv /\ LogInv)'
  BY LogInvNext
<1> QED BY <1>1, LogInvInit, LinedUp, PTL DEF Spec

-----------------------------------------------------------------------------
\* A program that calls hw_initialize first.
StartsWith(s, t) == Len(t) <= Len(s) /\ \A i \in 1 .. Len(t) : s[i] = t[i]

LEMMA HwInitializeSetsUp == StartsWith(Program, HwInitialize) => SetsUp(Program)
<1> SUFFICES ASSUME StartsWith(Program, HwInitialize) PROVE SetsUp(Program)
  OBVIOUS
<1>1. /\ Early(HwInitialize) /\ Len(HwInitialize) = 22 /\ Len(Program) \in Nat
      /\ \A i \in 1 .. 11 : HwInitialize[11 + i] = Second[i]
  BY HwInitializeEarly, ClocksAssumption
<1>2. 22 <= Len(Program) /\ \A i \in 1 .. 22 : Program[i] = HwInitialize[i]
  BY <1>1 DEF StartsWith
<1>3. /\ HwInitialize[1] = <<"internal", "ref">> /\ HwInitialize[2] = <<"internal", "sys">>
      /\ \A j \in 1 .. 9 : HwInitialize[j + 2] = <<"start", Order[j]>>
  BY <1>1 DEF Early
<1>4. ASSUME NEW j \in 1 .. 9 PROVE Program[j + 2] = <<"start", Order[j]>>
  <2>1. j + 2 \in 1 .. 22
    OBVIOUS
  <2>2. Program[j + 2] = HwInitialize[j + 2]
    BY <1>2, <2>1
  <2> QED BY <1>3, <2>2
<1>5. Program[1] = <<"internal", "ref">> /\ Program[2] = <<"internal", "sys">>
  <2>1. 1 \in 1 .. 22 /\ 2 \in 1 .. 22
    OBVIOUS
  <2> QED BY <1>2, <1>3, <2>1
<1>6. ASSUME NEW i \in 1 .. 11
      PROVE  Program[i][1] \in {"internal", "start"}
  <2>1. CASE i \in 3 .. 11
    <3>1. i - 2 \in 1 .. 9 /\ i = (i - 2) + 2
      BY <2>1
    <3>2. PICK j \in 1 .. 9 : i = j + 2
      BY <3>1
    <3>3. Program[i] = <<"start", Order[j]>>
      BY <1>4, <3>2
    <3> QED BY <3>3
  <2>2. CASE i \notin 3 .. 11
    <3>1. i = 1 \/ i = 2
      BY <2>2
    <3> QED BY <1>5, <3>1
  <2> QED BY <2>1, <2>2
<1>7. ASSUME NEW i \in 1 .. 11 PROVE Program[11 + i] = Second[i]
  <2>1. 11 + i \in 1 .. 22
    OBVIOUS
  <2>2. Program[11 + i] = HwInitialize[11 + i]
    BY <1>2, <2>1
  <2> QED BY <1>1, <2>2
<1>8. /\ Program[12] = <<"reset", "io_bank0">> /\ Program[13] = <<"reset", "pads_bank0">>
      /\ Program[14] = <<"configure", "led">> /\ Program[15] = <<"set", "led">>
      /\ Program[16] = <<"reset", "uart0">> /\ Program[17] = <<"configure", "tx">>
      /\ Program[18] = <<"configure", "rx">> /\ Program[19] = <<"uart0", "off">>
      /\ Program[20] = <<"uart0", "divider">> /\ Program[21] = <<"uart0", "line_control">>
      /\ Program[22] = <<"uart0", "on">>
  <2>1. /\ Program[11 + 1] = Second[1] /\ Program[11 + 2] = Second[2] /\ Program[11 + 3] = Second[3]
        /\ Program[11 + 4] = Second[4] /\ Program[11 + 5] = Second[5] /\ Program[11 + 6] = Second[6]
        /\ Program[11 + 7] = Second[7] /\ Program[11 + 8] = Second[8] /\ Program[11 + 9] = Second[9]
        /\ Program[11 + 10] = Second[10] /\ Program[11 + 11] = Second[11]
    BY <1>7
  <2> QED BY <2>1 DEF Second
<1>9. ASSUME NEW k \in 1 .. 22, NEW b, \A i \in 1 .. k : Program[i] # b
      PROVE  Before(Program, Program[k], b)
  <2> SUFFICES ASSUME NEW i \in 1 .. Len(Program), Program[i] = b
               PROVE  \E j \in 1 .. i - 1 : Program[j] = Program[k]
    BY DEF Before
  <2>1. i \notin 1 .. k
    BY <1>9
  <2>2. k \in 1 .. i - 1
    BY <1>1, <2>1
  <2> QED BY <2>2
<1>10. ASSUME NEW i \in 1 .. 22
      PROVE  /\ i <= 16 => Program[i] \notin {<<"uart0", "divider">>, <<"configure", "tx">>}
             /\ i <= 20 => Program[i] # <<"uart0", "line_control">>
             /\ Program[i] # <<"set_log_sink", "uart0">>
  <2>1. CASE i \in 1 .. 11
    BY <1>6, <2>1
  <2>2. CASE i \notin 1 .. 11
    <3>1. i \in {12, 13, 14, 15, 16, 17, 18, 19, 20, 21, 22}
      BY <2>2
    <3> QED BY <1>8, <3>1
  <2> QED BY <2>1, <2>2
<1>11. Before(Program, <<"reset", "uart0">>, <<"uart0", "divider">>)
  <2>1. \A i \in 1 .. 16 : Program[i] # <<"uart0", "divider">>
    BY <1>10
  <2> QED BY <1>8, <1>9, <2>1
<1>12. Before(Program, <<"uart0", "divider">>, <<"uart0", "line_control">>)
  <2>1. \A i \in 1 .. 20 : Program[i] # <<"uart0", "line_control">>
    BY <1>10
  <2> QED BY <1>8, <1>9, <2>1
<1>13. \A b \in {"io_bank0", "pads_bank0"} : Before(Program, <<"reset", b>>, <<"configure", "tx">>)
  <2>1. \A i \in 1 .. 16 : Program[i] # <<"configure", "tx">>
    <3>1. \A i \in 1 .. 16 : i \in 1 .. 22 /\ i <= 16
      OBVIOUS
    <3> QED BY <1>10, <3>1
  <2>2. (\A i \in 1 .. 12 : i \in 1 .. 16) /\ (\A i \in 1 .. 13 : i \in 1 .. 16)
    OBVIOUS
  <2>3. \A i \in 1 .. 12 : Program[i] # <<"configure", "tx">>
    BY <2>1, <2>2
  <2>4. \A i \in 1 .. 13 : Program[i] # <<"configure", "tx">>
    BY <2>1, <2>2
  <2>5. /\ Before(Program, Program[12], <<"configure", "tx">>)
        /\ Before(Program, Program[13], <<"configure", "tx">>)
    BY <1>9, <2>3, <2>4
  <2> QED BY <1>8, <2>5
<1>14. \A k \in 1 .. 22 : Before(Program, Program[k], <<"set_log_sink", "uart0">>)
  <2> SUFFICES ASSUME NEW k \in 1 .. 22
               PROVE  Before(Program, Program[k], <<"set_log_sink", "uart0">>)
    OBVIOUS
  <2>1. \A i \in 1 .. k : i \in 1 .. 22
    OBVIOUS
  <2>2. \A i \in 1 .. k : Program[i] # <<"set_log_sink", "uart0">>
    BY <1>10, <2>1
  <2> QED BY <1>9, <2>2
<1>15. /\ Program[4] = <<"start", "pll_sys">> /\ Program[5] = <<"start", "pll_usb">>
       /\ Program[11] = <<"start", "peri">>
  <2>1. /\ Program[2 + 2] = <<"start", Order[2]>> /\ Program[3 + 2] = <<"start", Order[3]>>
        /\ Program[9 + 2] = <<"start", Order[9]>>
    BY <1>4
  <2> QED BY <2>1 DEF Order
<1>16. \A call \in {<<"uart0", "line_control">>, <<"configure", "tx">>, <<"start", "peri">>} :
           Before(Program, call, <<"set_log_sink", "uart0">>)
  <2>1. /\ Before(Program, Program[21], <<"set_log_sink", "uart0">>)
        /\ Before(Program, Program[17], <<"set_log_sink", "uart0">>)
        /\ Before(Program, Program[11], <<"set_log_sink", "uart0">>)
    BY <1>14
  <2> QED BY <1>8, <1>15, <2>1
<1>17. Source("peri") \in Plls =>
           Before(Program, <<"start", Source("peri")>>, <<"set_log_sink", "uart0">>)
  <2>1. /\ Before(Program, Program[4], <<"set_log_sink", "uart0">>)
        /\ Before(Program, Program[5], <<"set_log_sink", "uart0">>)
    BY <1>14
  <2>2. \A p \in Plls : Before(Program, <<"start", p>>, <<"set_log_sink", "uart0">>)
    BY <1>15, <2>1 DEF Plls
  <2> QED BY <2>2
<1> QED BY <1>11, <1>12, <1>13, <1>16, <1>17 DEF SetsUp

\* hw_initialize sets everything up: a program that calls it first may log and do to
\* the clocks, the pins and the UART what it likes after it, and the terminal misses
\* and repeats nothing (hw.hpp:57-79).
THEOREM HwInitializeLogs ==
    StartsWith(Program, HwInitialize) /\ Readable => (Spec => []LogOnTheLine)
BY HwInitializeSetsUp, LogsOnTheLine
=============================================================================
