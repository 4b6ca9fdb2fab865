---------------------------- MODULE IptutilProofs ----------------------------
(* Proofs about Iptutil, for any number of processes that set the chain up   *)
(* or remove it and of rules that others insert.                             *)
EXTENDS Iptutil, TLAPS

HasIn(s, r) == \E i \in DOMAIN s : s[i] = r
Once(s, r) == \A i, j \in DOMAIN s : s[i] = r /\ s[j] = r => i = j

\* What the commands do to the list of rules of a chain.
LEMMA PrependRule ==
    ASSUME NEW s \in Seq(Rules), NEW x \in Rules, NEW r \in Rules
    PROVE  /\ <<x>> \o s \in Seq(Rules)
           /\ HasIn(<<x>> \o s, r) <=> (x = r \/ HasIn(s, r))
           /\ Once(s, r) /\ (x # r \/ ~HasIn(s, r)) => Once(<<x>> \o s, r)
<1> DEFINE t == <<x>> \o s
<1>1. t \in Seq(Rules) /\ Len(t) = Len(s) + 1 /\ t[1] = x
  OBVIOUS
<1>2. \A i \in 2 .. Len(t) : i - 1 \in DOMAIN s /\ t[i] = s[i - 1]
  OBVIOUS
<1>3. \A i \in DOMAIN s : i + 1 \in DOMAIN t /\ t[i + 1] = s[i]
  OBVIOUS
<1> HIDE DEF t
<1>4. 1 \in DOMAIN t /\ \A i \in DOMAIN t : i = 1 \/ (i - 1 \in DOMAIN s /\ t[i] = s[i - 1])
  BY <1>1, <1>2
<1>5. x = r => HasIn(t, r)
  BY <1>1, <1>4 DEF HasIn
<1>6. HasIn(s, r) => HasIn(t, r)
  BY <1>3 DEF HasIn
<1>7. HasIn(t, r) => x = r \/ HasIn(s, r)
  BY <1>1, <1>4 DEF HasIn
<1>8. ASSUME Once(s, r), x # r \/ ~HasIn(s, r), NEW i \in DOMAIN t, NEW j \in DOMAIN t,
             t[i] = r, t[j] = r
      PROVE  i = j
  <2>1. i \in Int /\ j \in Int
    BY <1>1
  <2>2. CASE i = 1 \/ j = 1
    BY <1>1, <1>4, <1>8, <2>2 DEF HasIn
  <2>3. CASE i # 1 /\ j # 1
    BY <1>4, <1>8, <2>1, <2>3 DEF Once
  <2> QED
    BY <2>2, <2>3
<1>9. Once(s, r) /\ (x # r \/ ~HasIn(s, r)) => Once(t, r)
  BY <1>8 DEF Once
<1> QED
  BY <1>1, <1>5, <1>6, <1>7, <1>9 DEF t

LEMMA AppendedRule ==
    ASSUME NEW s \in Seq(Rules), NEW x \in Rules, NEW r \in Rules
    PROVE  /\ Append(s, x) \in Seq(Rules)
           /\ HasIn(Append(s, x), r) <=> (x = r \/ HasIn(s, r))
           /\ Once(s, r) /\ (x # r \/ ~HasIn(s, r)) => Once(Append(s, x), r)
<1> DEFINE t == Append(s, x)
<1>1. t \in Seq(Rules) /\ Len(t) = Len(s) + 1 /\ t[Len(t)] = x
  OBVIOUS
<1>2. \A i \in DOMAIN s : i \in DOMAIN t /\ t[i] = s[i]
  OBVIOUS
<1>3. \A i \in DOMAIN t : i = Len(t) \/ i \in DOMAIN s
  BY <1>1
<1> HIDE DEF t
<1>4. HasIn(t, r) <=> (x = r \/ HasIn(s, r))
  BY <1>1, <1>2, <1>3 DEF HasIn
<1>5. Once(s, r) /\ (x # r \/ ~HasIn(s, r)) => Once(t, r)
  BY <1>1, <1>2, <1>3 DEF HasIn, Once
<1> QED
  BY <1>1, <1>4, <1>5 DEF t

LEMMA Concatenated ==
    ASSUME NEW u \in Seq(Rules), NEW v \in Seq(Rules), NEW i \in 1 .. (Len(u) + Len(v))
    PROVE  (u \o v)[i] = IF i <= Len(u) THEN u[i] ELSE v[i - Len(u)]
  OBVIOUS

LEMMA RemovedRule ==
    ASSUME NEW s \in Seq(Rules), NEW k \in DOMAIN s, NEW r \in Rules
    PROVE  /\ RemoveAt(s, k) \in Seq(Rules)
           /\ HasIn(RemoveAt(s, k), r) => HasIn(s, r)
           /\ Once(s, r) => Once(RemoveAt(s, k), r)
<1> DEFINE t == RemoveAt(s, k)
<1> DEFINE u == SubSeq(s, 1, k - 1)
<1> DEFINE v == SubSeq(s, k + 1, Len(s))
<1>0. /\ k \in 1 .. Len(s) /\ Len(s) \in Nat
      /\ u \in Seq(Rules) /\ Len(u) = k - 1 /\ \A i \in 1 .. (k - 1) : u[i] = s[i]
      /\ v \in Seq(Rules) /\ Len(v) = Len(s) - k
      /\ \A i \in 1 .. (Len(s) - k) : v[i] = s[i + k]
  OBVIOUS
<1>1. t = u \o v
  BY DEF RemoveAt
<1> HIDE DEF t, u, v
<1>2. t \in Seq(Rules) /\ Len(t) = Len(s) - 1
  BY <1>0, <1>1
<1>3. ASSUME NEW i \in 1 .. (Len(s) - 1) PROVE t[i] = IF i < k THEN s[i] ELSE s[i + 1]
  <2>1. i \in 1 .. (Len(u) + Len(v)) /\ (i <= Len(u) <=> i < k)
    BY <1>0
  <2>2. t[i] = IF i <= Len(u) THEN u[i] ELSE v[i - Len(u)]
    BY <1>0, <1>1, <2>1, Concatenated
  <2>3. CASE i < k
    BY <1>0, <2>1, <2>2, <2>3
  <2>4. CASE ~(i < k)
    <3>1. i - Len(u) \in 1 .. (Len(s) - k) /\ i - Len(u) + k = i + 1
      BY <1>0, <2>4
    <3> QED
      BY <1>0, <2>1, <2>2, <2>4, <3>1
  <2> QED
    BY <2>3, <2>4
<1>4. \A i \in DOMAIN t : i \in DOMAIN s /\ i + 1 \in DOMAIN s
  BY <1>2
<1>5. HasIn(t, r) => HasIn(s, r)
  BY <1>2, <1>3, <1>4 DEF HasIn
<1>6. ASSUME Once(s, r), NEW i \in DOMAIN t, NEW j \in DOMAIN t, t[i] = r, t[j] = r
      PROVE  i = j
  <2>1. i \in 1 .. (Len(s) - 1) /\ j \in 1 .. (Len(s) - 1) /\ k \in Int
    BY <1>2
  <2> DEFINE old(n) == IF n < k THEN n ELSE n + 1
  <2>2. old(i) \in DOMAIN s /\ s[old(i)] = r /\ old(j) \in DOMAIN s /\ s[old(j)] = r
    BY <1>3, <1>4, <1>6, <2>1
  <2>3. old(i) = old(j)
    BY <1>6, <2>2 DEF Once
  <2> QED
    BY <2>1, <2>3
<1>7. Once(s, r) => Once(t, r)
  BY <1>6 DEF Once
<1> QED
  BY <1>2, <1>5, <1>7 DEF t
-------------------------------------------------------------------------------
(* Where the programs are.                                                 *)

M1 == <<Op("InsertUnique", "jump"), Op("Append", "dnat")>>
M2 == <<Op("Append", "dnat")>>
R1 == <<Op("ClearChain", "EDGEMESH")>>

LEMMA Lists ==
    /\ Tail(Main) = M1 /\ Tail(M1) = M2 /\ Tail(M2) = <<>>
    /\ Len(Main) = 3 /\ Len(M1) = 2 /\ Len(M2) = 1
    /\ Tail(Removal) = R1 /\ Tail(R1) = <<>>
    /\ Len(Removal) = 2 /\ Len(R1) = 1
    /\ Head(Main) = Op("NewChain", "EDGEMESH") /\ Head(M1) = Op("InsertUnique", "jump")
    /\ Head(M2) = Op("Append", "dnat")
    /\ Head(Removal) = Op("Delete", "jump") /\ Head(R1) = Op("ClearChain", "EDGEMESH")
    /\ <<>> \notin {Main, M1, M2, Removal, R1}
    /\ Main # M1 /\ Main # M2 /\ M1 # M2 /\ Removal # R1
  BY DEF Main, M1, M2, Removal, R1

LEMMA ListsTyped == {Main, M1, M2, Removal, R1, <<>>} \subseteq Seq(Operations)
<1>1. /\ Op("NewChain", "EDGEMESH") \in Operations /\ Op("InsertUnique", "jump") \in Operations
      /\ Op("Append", "dnat") \in Operations /\ Op("Delete", "jump") \in Operations
      /\ Op("ClearChain", "EDGEMESH") \in Operations
  BY DEF Op, Operations, Ours
<1> QED
  BY <1>1 DEF Main, M1, M2, Removal, R1

PcSteps == {"off", "check", "again", "act", "drop", "done", "failed", "killed"}

\* What is left of a program is an end of its list, with nothing left when it is
\* done and, while it runs, something.
LeftInv ==
    /\ todo \in [Procs -> Seq(Operations)] /\ pc \in [Procs -> PcSteps]
    /\ \A p \in Starts : todo[p] \in {Main, M1, M2, <<>>}
    /\ \A p \in Others : todo[p] \in {Removal, R1, <<>>}
    /\ \A p \in Procs : Running(p) => todo[p] # <<>>
    /\ \A p \in Starts : pc[p] = "off" => todo[p] = Main
    /\ \A p \in Others : pc[p] = "off" => todo[p] = Removal
    /\ \A p \in Starts : pc[p] = "done" => todo[p] = <<>>
    /\ \A p \in Starts : pc[p] = "again" => todo[p] = M2
    /\ \A p \in Starts : pc[p] # "drop"
    /\ \A p \in Others : pc[p] = "drop" => todo[p] = R1

LEMMA Doing ==
    ASSUME LeftInv, NEW p \in Procs
    PROVE  /\ Does(p, "NewChain") <=> p \in Starts /\ todo[p] = Main
           /\ Does(p, "InsertUnique") <=> p \in Starts /\ todo[p] = M1
           /\ Does(p, "Append") <=> p \in Starts /\ todo[p] = M2
           /\ Does(p, "Delete") <=> p \in Others /\ todo[p] = Removal
           /\ Does(p, "ClearChain") <=> p \in Others /\ todo[p] = R1
           /\ p \in Starts => What(p) = IF todo[p] = Main THEN "EDGEMESH"
                                        ELSE IF todo[p] = M1 THEN "jump"
                                        ELSE IF todo[p] = M2 THEN "dnat" ELSE What(p)
           /\ p \in Others => What(p) = IF todo[p] = Removal THEN "jump"
                                        ELSE IF todo[p] = R1 THEN "EDGEMESH" ELSE What(p)
<1>1. p \in Starts <=> p \notin Others
  BY IptAssumption DEF Procs
<1>2. \A n, w : Op(n, w).name = n /\ Op(n, w).what = w
  BY DEF Op
<1>3. CASE p \in Starts
  <2>1. todo[p] \in {Main, M1, M2, <<>>}
    BY <1>3 DEF LeftInv
  <2> QED
    BY <1>1, <1>2, <1>3, <2>1, Lists DEF Does, What
<1>4. CASE p \in Others
  <2>1. todo[p] \in {Removal, R1, <<>>}
    BY <1>4 DEF LeftInv
  <2> QED
    BY <1>1, <1>2, <1>4, <2>1, Lists DEF Does, What
<1> QED
  BY <1>3, <1>4 DEF Procs

\* Whoever does not take the step stays where it is.
Stays(p) == \A q \in Procs \ {p} : pc'[q] = pc[q] /\ todo'[q] = todo[q]

LEMMA GotoLeft ==
    ASSUME LeftInv, NEW p \in Procs, NEW s \in PcSteps, Goto(p, s),
           s \notin {"off", "done"},
           s \in {"check", "again", "act", "drop"} => todo[p] # <<>>,
           s = "again" => p \in Starts /\ todo[p] = M2,
           s = "drop" => p \in Others /\ todo[p] = R1
    PROVE  /\ LeftInv' /\ Stays(p)
           /\ pc'[p] = s /\ todo' = todo
<1>0. p \in Starts <=> p \notin Others
  BY IptAssumption DEF Procs
<1>1. todo' = todo /\ pc' = [pc EXCEPT ![p] = s]
  BY DEF Goto
<1>2. pc' \in [Procs -> PcSteps] /\ pc'[p] = s /\ \A q \in Procs \ {p} : pc'[q] = pc[q]
  BY <1>1 DEF LeftInv
<1>3. Starts \subseteq Procs /\ Others \subseteq Procs
  BY DEF Procs
<1> QED
  BY <1>0, <1>1, <1>2, <1>3 DEF LeftInv, Stays, Running

LEMMA ReturnLeft ==
    ASSUME LeftInv, NEW p \in Procs, Return(p), todo[p] # <<>>
    PROVE  /\ LeftInv' /\ Stays(p)
           /\ todo'[p] = Tail(todo[p])
           /\ pc'[p] = IF todo'[p] = <<>> THEN "done" ELSE "check"
<1>0. p \in Starts <=> p \notin Others
  BY IptAssumption DEF Procs
<1>1. todo[p] \in IF p \in Starts THEN {Main, M1, M2} ELSE {Removal, R1}
  BY <1>0 DEF LeftInv
<1>2. todo'[p] = Tail(todo[p]) /\ \A q \in Procs \ {p} : todo'[q] = todo[q]
  BY DEF LeftInv, Return
<1>3. pc'[p] = IF Len(todo[p]) = 1 THEN "done" ELSE "check"
  BY DEF LeftInv, Return
<1>4. \A q \in Procs \ {p} : pc'[q] = pc[q]
  BY DEF LeftInv, Return
<1>5. Len(todo[p]) = 1 <=> Tail(todo[p]) = <<>>
  BY <1>1, Lists
<1>6. todo'[p] \in IF p \in Starts THEN {M1, M2, <<>>} ELSE {R1, <<>>}
  BY <1>1, <1>2, Lists
<1>7. todo' \in [Procs -> Seq(Operations)]
  <2>1. todo'[p] \in Seq(Operations)
    BY <1>6, ListsTyped
  <2> QED
    BY <1>2, <2>1 DEF LeftInv, Return
<1>8. pc' \in [Procs -> PcSteps]
  BY DEF LeftInv, Return, PcSteps
<1>9. Starts \subseteq Procs /\ Others \subseteq Procs
  BY DEF Procs
<1>10. pc'[p] = IF todo'[p] = <<>> THEN "done" ELSE "check"
  BY <1>2, <1>3, <1>5
<1>11. \A q \in Starts : todo'[q] \in {Main, M1, M2, <<>>}
  BY <1>2, <1>6, <1>9 DEF LeftInv
<1>12. \A q \in Others : todo'[q] \in {Removal, R1, <<>>}
  BY <1>0, <1>2, <1>6, <1>9 DEF LeftInv
<1>13. \A q \in Procs : Running(q)' => todo'[q] # <<>>
  BY <1>2, <1>4, <1>10 DEF LeftInv, Running
<1>14. /\ \A q \in Starts : pc'[q] = "off" => todo'[q] = Main
       /\ \A q \in Others : pc'[q] = "off" => todo'[q] = Removal
       /\ \A q \in Starts : pc'[q] = "done" => todo'[q] = <<>>
       /\ \A q \in Starts : pc'[q] = "again" => todo'[q] = M2
       /\ \A q \in Starts : pc'[q] # "drop"
       /\ \A q \in Others : pc'[q] = "drop" => todo'[q] = R1
  BY <1>2, <1>4, <1>9, <1>10 DEF LeftInv
<1> QED
  BY <1>2, <1>4, <1>7, <1>8, <1>10, <1>11, <1>12, <1>13, <1>14 DEF LeftInv, Stays
-------------------------------------------------------------------------------
(* What the kernel has.                                                    *)

Chain == "EDGEMESH" \in chains
Jump == HasIn(rules["PREROUTING"], "jump")
Dnat == HasIn(rules["EDGEMESH"], "dnat")
OneJump == Once(rules["PREROUTING"], "jump")
OneDnat == Once(rules["EDGEMESH"], "dnat")

KernelTyped ==
    /\ chains \subseteq Chains /\ "PREROUTING" \in chains
    /\ rules \in [Chains -> Seq(Rules)]

LEMMA ChainsAre ==
    /\ "PREROUTING" \in Chains /\ "EDGEMESH" \in Chains
    /\ ChainOf["jump"] = "PREROUTING" /\ ChainOf["dnat"] = "EDGEMESH"
    /\ Ours = {"jump", "dnat"} /\ Ours \subseteq Rules /\ "foreign" \in Rules
    /\ "foreign" \notin Ours
  BY DEF Chains, ChainOf, Ours, Rules

LEMMA PresentIs ==
    /\ Present("EDGEMESH") <=> Chain
    /\ Present("jump") <=> Jump
    /\ Present("dnat") <=> Dnat
  BY ChainsAre DEF Present, Has, HasIn, Chain, Jump, Dnat

Same == Chain' = Chain /\ Jump' = Jump /\ Dnat' = Dnat /\ OneJump' = OneJump /\ OneDnat' = OneDnat

LEMMA KernelSame ==
    ASSUME KernelTyped, UNCHANGED kernel
    PROVE  KernelTyped' /\ Same
  BY DEF kernel, KernelTyped, Same, Chain, Jump, Dnat, OneJump, OneDnat

\* A rule put first or last in a chain.
LEMMA RuleAdded ==
    ASSUME KernelTyped, UNCHANGED chains, NEW c \in Chains, NEW x \in Rules,
           \/ rules' = [rules EXCEPT ![c] = <<x>> \o @]
           \/ rules' = [rules EXCEPT ![c] = Append(@, x)]
    PROVE  /\ KernelTyped' /\ Chain' = Chain
           /\ \A d \in Chains, r \in Rules :
                /\ HasIn(rules[d], r)' <=> (HasIn(rules[d], r) \/ (d = c /\ x = r))
                /\ Once(rules[d], r) /\ ~(d = c /\ x = r /\ HasIn(rules[d], r)) =>
                      Once(rules[d], r)'
<1>1. rules[c] \in Seq(Rules)
  BY DEF KernelTyped
<1>2. rules'[c] \in {<<x>> \o rules[c], Append(rules[c], x)}
  BY DEF KernelTyped
<1>3. \A d \in Chains \ {c} : rules'[d] = rules[d]
  BY DEF KernelTyped
<1>4. ASSUME NEW r \in Rules
      PROVE  /\ rules'[c] \in Seq(Rules)
             /\ HasIn(rules'[c], r) <=> (x = r \/ HasIn(rules[c], r))
             /\ Once(rules[c], r) /\ (x # r \/ ~HasIn(rules[c], r)) => Once(rules'[c], r)
  <2>1. CASE rules'[c] = <<x>> \o rules[c]
    BY <1>1, <2>1, PrependRule
  <2>2. CASE rules'[c] = Append(rules[c], x)
    BY <1>1, <2>2, AppendedRule
  <2> QED
    BY <1>2, <2>1, <2>2
<1>5. rules'[c] \in Seq(Rules)
  BY <1>4, ChainsAre
<1>6. KernelTyped' /\ Chain' = Chain
  BY <1>5 DEF KernelTyped, Chain
<1>7. ASSUME NEW d \in Chains, NEW r \in Rules
      PROVE  /\ HasIn(rules[d], r)' <=> (HasIn(rules[d], r) \/ (d = c /\ x = r))
             /\ Once(rules[d], r) /\ ~(d = c /\ x = r /\ HasIn(rules[d], r)) =>
                   Once(rules[d], r)'
  <2>1. HasIn(rules[d], r)' = HasIn(rules'[d], r) /\ Once(rules[d], r)' = Once(rules'[d], r)
    BY DEF HasIn, Once
  <2>2. CASE d = c
    BY <1>4, <2>1, <2>2
  <2>3. CASE d # c
    BY <1>3, <2>1, <2>3
  <2> QED
    BY <2>2, <2>3
<1> QED
  BY <1>6, <1>7

\* A rule is taken out, or all of a chain's are.
LEMMA RulesTaken ==
    ASSUME KernelTyped, UNCHANGED chains, NEW c \in Chains,
           \/ \E k \in DOMAIN rules[c] : rules' = [rules EXCEPT ![c] = RemoveAt(@, k)]
           \/ rules' = [rules EXCEPT ![c] = <<>>]
    PROVE  /\ KernelTyped' /\ Chain' = Chain
           /\ OneJump => OneJump'
           /\ OneDnat => OneDnat'
           /\ Jump' => Jump
           /\ Dnat' => Dnat
<1>1. rules[c] \in Seq(Rules)
  BY DEF KernelTyped
<1>2. \/ \E k \in DOMAIN rules[c] : rules'[c] = RemoveAt(rules[c], k)
      \/ rules'[c] = <<>>
  BY DEF KernelTyped
<1>3. \A d \in Chains \ {c} : rules'[d] = rules[d]
  BY DEF KernelTyped
<1>4. rules'[c] \in Seq(Rules)
  <2>1. CASE rules'[c] = <<>>
    BY <2>1
  <2>2. ASSUME NEW k \in DOMAIN rules[c], rules'[c] = RemoveAt(rules[c], k)
        PROVE  rules'[c] \in Seq(Rules)
    BY <1>1, <2>2, RemovedRule, ChainsAre
  <2> QED
    BY <1>2, <2>1, <2>2
<1>5. KernelTyped' /\ Chain' = Chain
  BY <1>4 DEF KernelTyped, Chain
<1>6. ASSUME NEW r \in Rules
      PROVE  /\ Once(rules[c], r) => Once(rules'[c], r)
             /\ HasIn(rules'[c], r) => HasIn(rules[c], r)
  <2>1. CASE rules'[c] = <<>>
    BY <2>1 DEF Once, HasIn
  <2>2. CASE \E k \in DOMAIN rules[c] : rules'[c] = RemoveAt(rules[c], k)
    BY <1>1, <2>2, RemovedRule
  <2> QED
    BY <1>2, <2>1, <2>2
<1>7. \A d \in Chains, r \in Rules : /\ Once(rules[d], r) => Once(rules'[d], r)
                                     /\ HasIn(rules'[d], r) => HasIn(rules[d], r)
  BY <1>3, <1>6
<1>8. /\ OneJump' = Once(rules'["PREROUTING"], "jump") /\ OneDnat' = Once(rules'["EDGEMESH"], "dnat")
      /\ Jump' = HasIn(rules'["PREROUTING"], "jump") /\ Dnat' = HasIn(rules'["EDGEMESH"], "dnat")
  BY DEF OneJump, OneDnat, Jump, Dnat, HasIn, Once
<1> QED
  BY <1>5, <1>7, <1>8, ChainsAre DEF OneJump, OneDnat, Jump, Dnat
-------------------------------------------------------------------------------
(* The invariant.                                                          *)

Applied(p) ==
    /\ todo[p] # Main => Chain
    /\ todo[p] \in {M2, <<>>} => Jump
    /\ todo[p] = <<>> => Dnat

\* A start that nothing was removed under has what it is past.
AppliedInv == \A p \in Starts \ touched : Running(p) \/ pc[p] = "done" => Applied(p)

MetInv == \A p, q \in Procs : p # q /\ Running(p) /\ Running(q) => {p, q} \in met

Alone(p) == \A q \in Procs \ {p} : {p, q} \notin met

\* What a start that nobody met has seen is still so when it acts on it.
Fresh(p) ==
    /\ todo[p] = Main /\ pc[p] = "act" => ~Chain
    /\ todo[p] # Main => Chain

RefusedInv == \A p \in Starts : Alone(p) => p \notin refused /\ (Running(p) => Fresh(p))

\* No two starts met.
Apart == \A p, q \in Starts : p # q => {p, q} \notin met

\* What a start that no start met is about to add is not there yet.
Missing(p) ==
    pc[p] = "act" => (todo[p] = M1 => ~Jump) /\ (todo[p] = M2 => ~Dnat)

TwiceInv == Apart => OneJump /\ OneDnat /\ \A p \in Starts : Missing(p)

HistoryTyped ==
    /\ foreign \in 0 .. MaxForeign /\ met \in SUBSET SUBSET Procs
    /\ touched \subseteq Procs /\ refused \subseteq Procs

IInv ==
    /\ LeftInv /\ KernelTyped /\ HistoryTyped
    /\ AppliedInv /\ MetInv /\ RefusedInv /\ TwiceInv

LEMMA Starting == Init => IInv
<1> SUFFICES ASSUME Init PROVE IInv
  OBVIOUS
<1>0. Starts \subseteq Procs /\ Others \subseteq Procs /\ Procs = Starts \cup Others
  BY DEF Procs
<1>1. \A p \in Procs : pc[p] = "off" /\ ~Running(p)
  BY DEF Init, Running
<1>2. /\ \A p \in Starts : todo[p] = Main
      /\ \A p \in Others : todo[p] = Removal
      /\ todo \in [Procs -> Seq(Operations)]
  BY <1>0, ListsTyped, IptAssumption DEF Init
<1>3. LeftInv
  BY <1>0, <1>1, <1>2 DEF LeftInv, PcSteps, Init
<1>4. rules["PREROUTING"] = <<"foreign">> /\ rules["EDGEMESH"] = <<>>
  BY ChainsAre DEF Init
<1>5. KernelTyped
  <2>1. <<"foreign">> \in Seq(Rules) /\ <<>> \in Seq(Rules)
    BY ChainsAre
  <2> QED
    BY <2>1, ChainsAre DEF Init, KernelTyped
<1>6. OneJump /\ OneDnat
  BY <1>4 DEF OneJump, OneDnat, Once
<1>7. HistoryTyped
  BY IptAssumption DEF Init, HistoryTyped
<1>8. AppliedInv /\ MetInv
  BY <1>0, <1>1 DEF AppliedInv, MetInv
<1>9. RefusedInv /\ TwiceInv
  BY <1>0, <1>1, <1>6 DEF RefusedInv, TwiceInv, Missing, Init
<1> QED
  BY <1>3, <1>5, <1>7, <1>8, <1>9 DEF IInv

\* A step of one process: what it leaves of the others' views of the kernel.
LEMMA OneSteps ==
    ASSUME IInv, NEW p \in Procs, Running(p), Stays(p), LeftInv', KernelTyped', HistoryTyped',
           met' = met, refused' \subseteq refused \cup {p},
           \/ touched' = touched /\ (Chain => Chain') /\ (Jump => Jump') /\ (Dnat => Dnat')
           \/ Removed,
           p \in Others => (Jump' => Jump) /\ (Dnat' => Dnat),
           p \in Starts \ touched' /\ (Running(p)' \/ pc'[p] = "done") => Applied(p)',
           p \in Starts /\ Alone(p) => p \notin refused' /\ (Running(p)' => Fresh(p)'),
           Apart => OneJump' /\ OneDnat',
           p \in Starts => Missing(p)'
    PROVE  IInv'
<1>0. Starts \subseteq Procs /\ Others \subseteq Procs /\ Procs = Starts \cup Others
  BY DEF Procs
<1>1. \A q \in Procs \ {p} : /\ pc'[q] = pc[q] /\ todo'[q] = todo[q]
                             /\ Running(q)' = Running(q)
  BY DEF Stays, Running
<1>2. \A q \in Procs : Alone(q)' = Alone(q)
  BY DEF Alone
<1>3. Apart' = Apart
  BY DEF Apart
<1>4. AppliedInv'
  <2> SUFFICES ASSUME NEW q \in Starts \ touched', q # p, Running(q)' \/ pc'[q] = "done"
               PROVE  Applied(q)'
    BY DEF AppliedInv
  <2>1. q \in Procs \ {p} /\ pc[q] # "off" /\ (Running(q) \/ pc[q] = "done")
    BY <1>0, <1>1 DEF Running
  <2>2. ~Removed
    BY <2>1 DEF Removed
  <2>3. Applied(q)
    BY <2>1, <2>2 DEF IInv, AppliedInv
  <2> QED
    BY <1>1, <2>1, <2>2, <2>3 DEF Applied
<1>5. MetInv'
  <2> SUFFICES ASSUME NEW q \in Procs, NEW r \in Procs, q # r, Running(q)', Running(r)'
               PROVE  {q, r} \in met
    BY DEF MetInv
  <2>1. Running(q) /\ Running(r)
    BY <1>1
  <2> QED
    BY <2>1 DEF IInv, MetInv
<1>6. RefusedInv'
  <2> SUFFICES ASSUME NEW q \in Starts, q # p, Alone(q)
               PROVE  q \notin refused' /\ (Running(q)' => Fresh(q)')
    BY <1>0, <1>2 DEF RefusedInv
  <2>1. q \notin refused
    BY DEF IInv, RefusedInv
  <2>2. ~Running(q)
    BY <1>0 DEF IInv, MetInv, Alone
  <2> QED
    BY <1>0, <1>1, <2>1, <2>2
<1>7. TwiceInv'
  <2> SUFFICES ASSUME Apart, NEW q \in Starts, q # p PROVE Missing(q)'
    BY <1>3 DEF TwiceInv
  <2>1. Missing(q)
    BY DEF IInv, TwiceInv
  <2>2. CASE p \in Others
    BY <1>0, <1>1, <2>1, <2>2 DEF Missing
  <2>3. CASE p \in Starts
    <3>1. ~Running(q)
      BY <1>0, <2>3 DEF IInv, MetInv, Apart
    <3> QED
      BY <1>0, <1>1, <3>1 DEF Missing, Running
  <2> QED
    BY <1>0, <2>2, <2>3
<1> QED
  BY <1>4, <1>5, <1>6, <1>7 DEF IInv
-------------------------------------------------------------------------------
(* The steps.                                                              *)

LEMMA Roles == \A p \in Procs : p \in Starts <=> p \notin Others
  BY IptAssumption DEF Procs

LEMMA StartInProcs == Starts \subseteq Procs
  BY DEF Procs

LEMMA ChecksKeep ==
    ASSUME IInv, NEW p \in Procs, Check(p) \/ AppendUnique(p)
    PROVE  IInv'
<1>1. LeftInv /\ KernelTyped /\ Running(p) /\ todo[p] # <<>>
  BY DEF IInv, LeftInv, Check, AppendUnique, Running
<1>2. KernelTyped' /\ Same
  BY <1>1, KernelSame DEF Check, AppendUnique
<1>3. HistoryTyped' /\ UNCHANGED <<met, touched, refused>>
  BY DEF Check, AppendUnique, history, IInv, HistoryTyped
<1>4. CASE Return(p) /\ (p \in Starts => Present(What(p)))
  <2>1. LeftInv' /\ Stays(p) /\ todo'[p] = Tail(todo[p])
        /\ pc'[p] = IF todo'[p] = <<>> THEN "done" ELSE "check"
    BY <1>1, <1>4, ReturnLeft
  <2>2. ASSUME p \in Starts
        PROVE  /\ todo[p] = Main => todo'[p] = M1 /\ Chain
               /\ todo[p] = M1 => todo'[p] = M2 /\ Jump
               /\ todo[p] = M2 => todo'[p] = <<>> /\ Dnat
               /\ todo[p] \in {Main, M1, M2}
    <3>1. todo[p] \in {Main, M1, M2}
      BY <1>1, <2>2 DEF LeftInv
    <3> QED
      BY <1>1, <1>4, <2>1, <2>2, <3>1, Doing, Lists, PresentIs
  <2>3. p \in Starts \ touched' => Applied(p)'
    BY <1>1, <1>2, <1>3, <2>2, Lists DEF IInv, AppliedInv, Applied, Same
  <2>4. p \in Starts /\ Alone(p) => p \notin refused' /\ Fresh(p)'
    BY <1>1, <1>2, <1>3, <2>1, <2>2, Lists DEF IInv, RefusedInv, Fresh, Same
  <2>5. Missing(p)'
    BY <2>1 DEF Missing
  <2> QED
    BY <1>1, <1>2, <1>3, <2>1, <2>3, <2>4, <2>5, OneSteps DEF IInv, TwiceInv, Same
<1>5. CASE /\ Goto(p, "again") /\ Does(p, "Append")
           /\ pc[p] = "check"
  <2>1. p \in Starts /\ todo[p] = M2
    BY <1>1, <1>5, Doing
  <2>2. LeftInv' /\ Stays(p) /\ todo' = todo /\ pc'[p] = "again"
    BY <1>1, <1>5, <2>1, GotoLeft DEF PcSteps
  <2>3. p \in Starts \ touched' => Applied(p)'
    BY <1>1, <1>2, <1>3, <2>2 DEF IInv, AppliedInv, Applied, Same
  <2>4. p \in Starts /\ Alone(p) => p \notin refused' /\ Fresh(p)'
    BY <1>1, <1>2, <1>3, <2>2 DEF IInv, RefusedInv, Fresh, Same
  <2>5. Missing(p)'
    BY <2>2 DEF Missing
  <2> QED
    BY <1>1, <1>2, <1>3, <2>2, <2>3, <2>4, <2>5, OneSteps DEF IInv, TwiceInv, Same
<1>6. CASE Goto(p, "act") /\ (p \in Starts => ~Present(What(p)))
  <2>2. LeftInv' /\ Stays(p) /\ todo' = todo /\ pc'[p] = "act"
    BY <1>1, <1>6, GotoLeft DEF PcSteps
  <2>3. p \in Starts \ touched' => Applied(p)'
    BY <1>1, <1>2, <1>3, <2>2 DEF IInv, AppliedInv, Applied, Same
  <2>4. p \in Starts => /\ todo[p] = Main => ~Chain
                        /\ todo[p] = M1 => ~Jump
                        /\ todo[p] = M2 => ~Dnat
    BY <1>1, <1>6, Doing, Lists, PresentIs
  <2>5. p \in Starts /\ Alone(p) => p \notin refused' /\ Fresh(p)'
    BY <1>1, <1>2, <1>3, <2>2, <2>4 DEF IInv, RefusedInv, Fresh, Same
  <2>6. p \in Starts => Missing(p)'
    BY <1>2, <2>2, <2>4 DEF Missing, Same
  <2> QED
    BY <1>1, <1>2, <1>3, <2>2, <2>3, <2>5, <2>6, OneSteps DEF IInv, TwiceInv, Same
<1>7. p \in Starts => Does(p, "NewChain") \/ Does(p, "InsertUnique") \/ Does(p, "Append")
  BY <1>1, Doing DEF LeftInv
<1>8. CASE Check(p)
  BY <1>4, <1>5, <1>6, <1>7, <1>8 DEF Check
<1>9. CASE AppendUnique(p)
  BY <1>4, <1>6, <1>9 DEF AppendUnique
<1> QED
  BY <1>8, <1>9

\* The kernel refuses: a start that nobody met has seen what it relies on.
LEMMA RefusalsKeep ==
    ASSUME IInv, NEW p \in Procs, Refuse(p), Running(p),
           p \in Starts => /\ todo[p] = Main => pc[p] = "act" /\ Chain
                           /\ todo[p] # Main => ~Chain
    PROVE  IInv'
<1>1. LeftInv /\ KernelTyped
  BY DEF IInv
<1>2. KernelTyped' /\ Same
  BY <1>1, KernelSame DEF Refuse
<1>3. LeftInv' /\ Stays(p) /\ pc'[p] = "failed"
  BY <1>1, GotoLeft DEF Refuse, PcSteps
<1>4. HistoryTyped' /\ met' = met /\ touched' = touched /\ refused' = refused \cup {p}
  BY DEF Refuse, IInv, HistoryTyped
<1>5. ~Running(p)' /\ pc'[p] # "done" /\ Missing(p)'
  BY <1>3 DEF Running, Missing
<1>6. p \in Starts => ~Alone(p)
  BY DEF IInv, RefusedInv, Fresh
<1> QED
  BY <1>1, <1>2, <1>3, <1>4, <1>5, <1>6, OneSteps DEF IInv, TwiceInv, Same

LEMMA StopsKeep ==
    ASSUME IInv, NEW p \in Procs, CommandFails(p) \/ Crash(p)
    PROVE  IInv'
<1>1. LeftInv /\ KernelTyped /\ Running(p)
  BY DEF IInv, CommandFails, Crash
<1>2. KernelTyped' /\ Same
  BY <1>1, KernelSame DEF CommandFails, Crash
<1>3. HistoryTyped' /\ UNCHANGED <<met, touched, refused>>
  BY DEF CommandFails, Crash, history, IInv, HistoryTyped
<1>4. LeftInv' /\ Stays(p) /\ pc'[p] \in {"failed", "killed"}
  BY <1>1, GotoLeft DEF CommandFails, Crash, PcSteps
<1>5. ~Running(p)' /\ pc'[p] # "done" /\ Missing(p)'
  BY <1>4 DEF Running, Missing
<1>6. p \in Starts /\ Alone(p) => p \notin refused
  BY DEF IInv, RefusedInv
<1> QED
  BY <1>1, <1>2, <1>3, <1>4, <1>5, <1>6, OneSteps DEF IInv, TwiceInv, Same

LEMMA NewChainKeeps ==
    ASSUME IInv, NEW p \in Procs, NewChain(p)
    PROVE  IInv'
<1>1. LeftInv /\ KernelTyped /\ Running(p) /\ pc[p] = "act"
  BY DEF IInv, NewChain, Running
<1>2. p \in Starts /\ todo[p] = Main /\ What(p) = "EDGEMESH"
  BY <1>1, Doing DEF NewChain
<1>3. CASE Refuse(p) /\ What(p) \in chains
  BY <1>1, <1>2, <1>3, RefusalsKeep DEF Chain
<1>4. CASE /\ chains' = chains \cup {What(p)} /\ Return(p) /\ UNCHANGED <<rules, history>>
  <2>1. LeftInv' /\ Stays(p) /\ todo'[p] = M1 /\ pc'[p] = "check"
    BY <1>1, <1>2, <1>4, ReturnLeft, Lists
  <2>2. /\ KernelTyped' /\ Chain' /\ Jump' = Jump /\ Dnat' = Dnat
        /\ OneJump' = OneJump /\ OneDnat' = OneDnat
    BY <1>1, <1>2, <1>4, ChainsAre DEF KernelTyped, Chain, Jump, Dnat, OneJump, OneDnat
  <2>3. HistoryTyped' /\ UNCHANGED <<met, touched, refused>>
    BY <1>4 DEF history, IInv, HistoryTyped
  <2>4. Applied(p)' /\ Fresh(p)' /\ Missing(p)'
    BY <2>1, <2>2, Lists DEF Applied, Fresh, Missing
  <2>5. Alone(p) => p \notin refused
    BY <1>2 DEF IInv, RefusedInv
  <2> QED
    BY <1>1, <1>2, <2>1, <2>2, <2>3, <2>4, <2>5, Roles, OneSteps DEF IInv, TwiceInv
<1> QED
  BY <1>3, <1>4 DEF NewChain

\* Our rule r goes into its chain, at either end.
LEMMA RuleKeeps ==
    ASSUME IInv, NEW p \in Starts, NEW r \in Ours, pc[p] = "act",
           todo[p] = IF r = "jump" THEN M1 ELSE M2, Accepts(r), Return(p),
           UNCHANGED <<chains, history>>,
           \/ rules' = [rules EXCEPT ![ChainOf[r]] = <<r>> \o @]
           \/ rules' = [rules EXCEPT ![ChainOf[r]] = Append(@, r)]
    PROVE  IInv'
<1>1. LeftInv /\ KernelTyped /\ Running(p) /\ p \in Procs /\ todo[p] # <<>>
  BY StartInProcs, Lists DEF IInv, Running
<1>2. LeftInv' /\ Stays(p) /\ todo'[p] = (IF r = "jump" THEN M2 ELSE <<>>)
      /\ pc'[p] = IF r = "jump" THEN "check" ELSE "done"
  <2>1. /\ LeftInv' /\ Stays(p) /\ todo'[p] = Tail(todo[p])
        /\ pc'[p] = IF todo'[p] = <<>> THEN "done" ELSE "check"
    BY <1>1, ReturnLeft
  <2>2. Tail(todo[p]) = IF r = "jump" THEN M2 ELSE <<>>
    BY Lists
  <2> QED
    BY <2>1, <2>2, Lists
<1>3. ChainOf[r] \in Chains /\ r \in Rules
  BY ChainsAre
<1>4. /\ KernelTyped' /\ Chain' = Chain
      /\ \A d \in Chains, x \in Rules :
           /\ HasIn(rules[d], x)' <=> (HasIn(rules[d], x) \/ (d = ChainOf[r] /\ r = x))
           /\ Once(rules[d], x) /\ ~(d = ChainOf[r] /\ r = x /\ HasIn(rules[d], x)) =>
                 Once(rules[d], x)'
  BY <1>1, <1>3, RuleAdded
<1>5. /\ Jump' <=> (Jump \/ r = "jump")
      /\ Dnat' <=> (Dnat \/ r = "dnat")
      /\ OneJump /\ ~(r = "jump" /\ Jump) => OneJump'
      /\ OneDnat /\ ~(r = "dnat" /\ Dnat) => OneDnat'
  BY <1>4, ChainsAre DEF Jump, Dnat, OneJump, OneDnat
<1>6. HistoryTyped' /\ UNCHANGED <<met, touched, refused>>
  BY DEF history, IInv, HistoryTyped
<1>7. Chain /\ r \in {"jump", "dnat"}
  BY DEF Accepts, Chain, Ours
<1>8. p \notin touched => Applied(p)'
  <2>1. p \notin touched => Applied(p)
    BY <1>1 DEF IInv, AppliedInv
  <2> QED
    BY <1>2, <1>4, <1>5, <1>7, <2>1, Lists DEF Applied
<1>9. Fresh(p)' /\ Missing(p)'
  BY <1>2, <1>4, <1>7, Lists DEF Fresh, Missing
<1>10. Alone(p) => p \notin refused
  BY DEF IInv, RefusedInv
<1>11. Apart => OneJump' /\ OneDnat'
  BY <1>5, <1>7, Lists DEF IInv, TwiceInv, Missing
<1> QED
  BY <1>1, <1>2, <1>4, <1>5, <1>6, <1>8, <1>9, <1>10, <1>11, Roles, OneSteps

LEMMA InsertKeeps ==
    ASSUME IInv, NEW p \in Procs, InsertUnique(p) \/ AppendRule(p)
    PROVE  IInv'
<1>1. LeftInv /\ KernelTyped /\ Running(p) /\ pc[p] = "act"
  BY DEF IInv, InsertUnique, AppendRule, Running
<1>2. /\ p \in Starts /\ What(p) \in Ours
      /\ todo[p] = IF What(p) = "jump" THEN M1 ELSE M2
  BY <1>1, Doing, Lists, ChainsAre DEF InsertUnique, AppendRule
<1>3. CASE Refuse(p) /\ ~Accepts(What(p))
  <2>1. ~Chain /\ todo[p] # Main
    BY <1>1, <1>2, <1>3, Lists, ChainsAre DEF Accepts, Chain, KernelTyped
  <2> QED
    BY <1>1, <1>3, <2>1, RefusalsKeep
<1>4. CASE ~Refuse(p)
  BY <1>1, <1>2, <1>4, RuleKeeps DEF InsertUnique, AppendRule, history
<1>5. Refuse(p) => ~Accepts(What(p))
  <2>1. CASE InsertUnique(p)
    BY <1>1, <2>1 DEF InsertUnique, Refuse, Return, Goto, LeftInv
  <2>2. CASE AppendRule(p)
    BY <1>1, <2>2 DEF AppendRule, Refuse, Return, Goto, LeftInv
  <2> QED
    BY <2>1, <2>2
<1> QED
  BY <1>3, <1>4, <1>5

\* Others remove; whoever has started is marked.
LEMMA RemovesKeep ==
    ASSUME IInv, NEW p \in Others, Running(p), LeftInv', Stays(p), KernelTyped', Removed,
           UNCHANGED <<foreign, met>>, refused' \subseteq refused \cup {p},
           OneJump => OneJump', OneDnat => OneDnat', Jump' => Jump, Dnat' => Dnat
    PROVE  IInv'
<1>1. p \in Procs /\ p \notin Starts
  BY Roles DEF Procs
<1>2. HistoryTyped'
  BY <1>1 DEF IInv, HistoryTyped, Removed
<1> QED
  BY <1>1, <1>2, OneSteps DEF IInv, TwiceInv

LEMMA OthersKeep ==
    ASSUME IInv, NEW p \in Procs, Delete(p) \/ FlushChain(p) \/ DeleteChain(p)
    PROVE  IInv'
<1>1. LeftInv /\ KernelTyped /\ Running(p)
  BY DEF IInv, Delete, FlushChain, DeleteChain, Running
<1>2. p \in Others /\ p \notin Starts /\ todo[p] # <<>>
  <2>1. CASE pc[p] = "drop"
    BY <1>1, <2>1, Roles DEF LeftInv, Running
  <2>2. CASE pc[p] # "drop"
    BY <1>1, <2>2, Doing, Roles DEF Delete, FlushChain, DeleteChain, LeftInv
  <2> QED
    BY <2>1, <2>2
<1>3. CASE Refuse(p)
  BY <1>1, <1>2, <1>3, RefusalsKeep
<1>4. CASE Delete(p) /\ ~Refuse(p)
  <2> DEFINE c == ChainOf[What(p)]
  <2>1. PICK i \in DOMAIN rules[c] :
            /\ rules' = [rules EXCEPT ![c] = RemoveAt(@, i)]
            /\ Removed /\ Return(p) /\ UNCHANGED <<chains, foreign, met, refused>>
    BY <1>4 DEF Delete
  <2>2. c \in Chains
    BY <1>1, <1>4, Doing, Lists, ChainsAre DEF Delete
  <2>3. LeftInv' /\ Stays(p)
    BY <1>1, <1>2, <2>1, ReturnLeft
  <2> QED
    BY <1>1, <1>2, <2>1, <2>2, <2>3, RulesTaken, RemovesKeep
<1>5. CASE FlushChain(p) /\ ~Refuse(p)
  <2>1. /\ rules' = [rules EXCEPT ![What(p)] = <<>>]
        /\ Removed /\ Goto(p, "drop") /\ UNCHANGED <<chains, foreign, met, refused>>
    BY <1>5 DEF FlushChain
  <2>2. todo[p] = R1 /\ What(p) \in Chains
    BY <1>1, <1>5, Doing, Lists, ChainsAre DEF FlushChain
  <2>3. LeftInv' /\ Stays(p)
    BY <1>1, <1>2, <2>1, <2>2, GotoLeft DEF PcSteps
  <2> QED
    BY <1>1, <1>2, <2>1, <2>2, <2>3, RulesTaken, RemovesKeep
<1>6. CASE DeleteChain(p) /\ ~Refuse(p)
  <2>1. /\ chains' = chains \ {What(p)} /\ Removed /\ Return(p)
        /\ UNCHANGED <<rules, foreign, met, refused>>
    BY <1>6 DEF DeleteChain
  <2>2. What(p) = "EDGEMESH"
    BY <1>1, <1>2, <1>6, Doing, Lists DEF DeleteChain, LeftInv
  <2>3. LeftInv' /\ Stays(p)
    BY <1>1, <1>2, <2>1, ReturnLeft
  <2>4. /\ KernelTyped' /\ Jump' = Jump /\ Dnat' = Dnat
        /\ OneJump' = OneJump /\ OneDnat' = OneDnat
    BY <1>1, <2>1, <2>2 DEF KernelTyped, Jump, Dnat, OneJump, OneDnat
  <2> QED
    BY <1>1, <1>2, <2>1, <2>3, <2>4, RemovesKeep
<1> QED
  BY <1>3, <1>4, <1>5, <1>6

LEMMA BeginKeeps ==
    ASSUME IInv, NEW p \in Procs, Begin(p)
    PROVE  IInv'
<1>1. LeftInv /\ KernelTyped
  BY DEF IInv
<1>2. KernelTyped' /\ Same
  BY <1>1, KernelSame DEF Begin
<1>3. /\ UNCHANGED <<todo, foreign, touched, refused>> /\ pc[p] = "off" /\ pc'[p] = "check"
      /\ \A q \in Procs \ {p} : pc'[q] = pc[q]
      /\ pc' \in [Procs -> PcSteps]
      /\ met' = met \cup {{p, q} : q \in {x \in Procs : Running(x)}}
  BY <1>1 DEF Begin, LeftInv, PcSteps
<1>4. \A q \in Procs \ {p} : Running(q)' = Running(q)
  BY <1>3 DEF Running
<1>5. LeftInv'
  <2>1. todo[p] # <<>>
    BY <1>1, <1>3, Lists DEF LeftInv, Procs
  <2>2. Others \subseteq Procs
    BY DEF Procs
  <2>3. todo' = todo /\ \A q \in Procs : Running(q)' => todo[q] # <<>>
    BY <1>1, <1>3, <1>4, <2>1 DEF LeftInv
  <2> QED
    BY <1>1, <1>3, <2>2, <2>3, StartInProcs DEF LeftInv
<1>6. HistoryTyped'
  BY <1>3 DEF IInv, HistoryTyped
<1>7. AppliedInv'
  <2>1. p \in Starts => todo[p] = Main
    BY <1>1, <1>3 DEF LeftInv
  <2>2. p \in Starts => Applied(p)'
    BY <1>3, <2>1, Lists DEF Applied
  <2> QED
    BY <1>2, <1>3, <1>4, <2>2, StartInProcs DEF IInv, AppliedInv, Applied, Same
<1>8. MetInv'
  <2> SUFFICES ASSUME NEW q \in Procs, NEW r \in Procs, q # r, Running(q)', Running(r)'
               PROVE  {q, r} \in met'
    BY DEF MetInv
  <2>1. {q, r} = {r, q}
    OBVIOUS
  <2>2. CASE q # p /\ r # p
    BY <1>3, <1>4, <2>2 DEF IInv, MetInv
  <2>3. CASE q = p
    BY <1>3, <1>4, <2>3
  <2>4. CASE r = p
    BY <1>3, <1>4, <2>1, <2>4
  <2> QED
    BY <2>2, <2>3, <2>4
<1>9. RefusedInv'
  <2>1. \A q \in Procs : Alone(q)' => Alone(q)
    BY <1>3 DEF Alone
  <2>2. p \in Starts => Fresh(p)'
    BY <1>1, <1>3 DEF Fresh, LeftInv
  <2> QED
    BY <1>2, <1>3, <1>4, <2>1, <2>2, StartInProcs DEF IInv, RefusedInv, Fresh, Same
<1>10. TwiceInv'
  <2>1. Apart' => Apart
    BY <1>3 DEF Apart
  <2> QED
    BY <1>2, <1>3, <2>1, StartInProcs DEF IInv, TwiceInv, Missing, Same
<1> QED
  BY <1>2, <1>5, <1>6, <1>7, <1>8, <1>9, <1>10 DEF IInv

LEMMA ForeignKeeps == IInv /\ (ForeignInsert \/ UNCHANGED vars) => IInv'
<1> SUFFICES ASSUME IInv, ForeignInsert \/ UNCHANGED vars PROVE IInv'
  OBVIOUS
<1>1. /\ KernelTyped' /\ (Chain' <=> Chain) /\ (Jump' <=> Jump) /\ (Dnat' <=> Dnat)
      /\ OneJump => OneJump'
      /\ OneDnat => OneDnat'
  <2>1. KernelTyped
    BY DEF IInv
  <2>2. CASE ForeignInsert
    <3>1. /\ KernelTyped' /\ Chain' = Chain
          /\ \A d \in Chains, r \in Rules :
               /\ HasIn(rules[d], r)' <=>
                     (HasIn(rules[d], r) \/ (d = "PREROUTING" /\ "foreign" = r))
               /\ Once(rules[d], r) /\ ~(d = "PREROUTING" /\ "foreign" = r
                                        /\ HasIn(rules[d], r)) => Once(rules[d], r)'
      BY <2>1, <2>2, RuleAdded, ChainsAre DEF ForeignInsert
    <3>2. \A d \in Chains, r \in Ours : /\ HasIn(rules[d], r)' <=> HasIn(rules[d], r)
                                       /\ Once(rules[d], r) => Once(rules[d], r)'
      BY <3>1, ChainsAre
    <3> QED
      BY <3>1, <3>2, ChainsAre DEF Jump, Dnat, OneJump, OneDnat
  <2>3. CASE UNCHANGED vars
    BY <2>1, <2>3, KernelSame DEF vars, kernel, Same
  <2> QED
    BY <2>2, <2>3
<1>2. UNCHANGED <<todo, pc, met, touched, refused>> /\ foreign' \in 0 .. MaxForeign
  BY IptAssumption DEF ForeignInsert, vars, IInv, HistoryTyped
<1>3. LeftInv' /\ HistoryTyped'
  BY <1>2 DEF IInv, LeftInv, Running, HistoryTyped
<1>4. AppliedInv' /\ MetInv' /\ RefusedInv' /\ TwiceInv'
  BY <1>1, <1>2 DEF IInv, AppliedInv, Applied, MetInv, RefusedInv, Fresh, TwiceInv, Missing,
     Running, Alone, Apart
<1> QED
  BY <1>1, <1>3, <1>4 DEF IInv

LEMMA Invariant == Spec => []IInv
<1>1. IInv /\ [Next]_vars => IInv'
  BY BeginKeeps, ChecksKeep, NewChainKeeps, InsertKeeps, OthersKeep, StopsKeep, ForeignKeeps
     DEF Next, Step
<1> QED
  BY Starting, <1>1, PTL DEF Spec

\* Every step keeps every variable in its type, the lists of rules included.
THEOREM IptTyped == Spec => []TypeOK
<1>1. IInv => TypeOK
  BY DEF IInv, LeftInv, PcSteps, KernelTyped, HistoryTyped, TypeOK
<1> QED
  BY <1>1, Invariant, PTL

\* A start that ran to its end has brought about all that it is for.
THEOREM StartsApply == Spec => []AppliedOrRemoved
<1>1. IInv => AppliedOrRemoved
  BY Lists DEF IInv, AppliedInv, Applied, LeftInv, AppliedOrRemoved, Has, HasIn, Chain, Jump, Dnat
<1> QED
  BY <1>1, Invariant, PTL

\* Only starts that met double a rule.
THEOREM RulesUnique == Spec => []TwiceOnlyIfMet
<1>1. IInv => TwiceOnlyIfMet
  BY ChainsAre DEF IInv, TwiceInv, Apart, OneJump, OneDnat, Once, TwiceOnlyIfMet
<1> QED
  BY <1>1, Invariant, PTL

\* A start that nobody met is refused nothing.
THEOREM StartsAccepted == Spec => []RefusedOnlyIfMet
<1>1. IInv => RefusedOnlyIfMet
  BY StartInProcs DEF IInv, HistoryTyped, RefusedInv, Alone, RefusedOnlyIfMet
<1> QED
  BY <1>1, Invariant, PTL
===============================================================================
