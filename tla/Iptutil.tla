-------------------------------- MODULE Iptutil --------------------------------
(***************************************************************************)
(* The idempotent iptables wrappers of adapter/iptables/iptables.go and    *)
(* the programs that use them: adapter/main.go, which makes the EDGEMESH   *)
(* chain and its two rules, and callers of the operations that main.go     *)
(* does not use.  Each wrapper first asks the kernel and then acts; every  *)
(* iptables command is one step, and the kernel's lock orders commands but *)
(* not the two halves of a wrapper.                                        *)
(***************************************************************************)
EXTENDS Naturals, Sequences, SequencesExt

CONSTANTS
    Starts,         \* processes that run adapter/main.go
    Others,         \* processes that call Delete and ClearChain
    MaxForeign      \* how often another program puts a rule of its own first

ASSUME IptAssumption == Starts \cap Others = {} /\ MaxForeign \in Nat

Procs == Starts \cup Others

Chains == {"PREROUTING", "EDGEMESH"}
Rules == {"jump", "dnat", "foreign"}
Ours == {"jump", "dnat"}

\* The chain that a rule is in, and the one it jumps to.
ChainOf == [r \in Ours |-> IF r = "jump" THEN "PREROUTING" ELSE "EDGEMESH"]
Referenced(table, c) ==
    c = "EDGEMESH" /\ \E i \in DOMAIN table["PREROUTING"] : table["PREROUTING"][i] = "jump"

Op(name, what) == [name |-> name, what |-> what]
Operations == [name : {"NewChain", "InsertUnique", "Append", "Delete", "ClearChain"},
               what : Ours \cup {"EDGEMESH"}]

Main == <<Op("NewChain", "EDGEMESH"), Op("InsertUnique", "jump"), Op("Append", "dnat")>>
Removal == <<Op("Delete", "jump"), Op("ClearChain", "EDGEMESH")>>

VARIABLES
    chains,     \* chains of the nat table
    rules,      \* rules[c]: the rules of chain c in order
    todo,       \* todo[p]: the operations p has before it
    pc,         \* where p is in the first of them
    foreign,    \* how often another program inserted its rule
    met,        \* history: pairs of processes that ran at the same time
    touched,    \* history: processes since whose begin something was removed
    refused     \* history: processes one of whose commands the kernel refused

vars == <<chains, rules, todo, pc, foreign, met, touched, refused>>
kernel == <<chains, rules>>
history == <<foreign, met, touched, refused>>

Init ==
    /\ chains = {"PREROUTING"}
    /\ rules = [c \in Chains |-> IF c = "PREROUTING" THEN <<"foreign">> ELSE <<>>]
    /\ todo = [p \in Procs |-> IF p \in Starts THEN Main ELSE Removal]
    /\ pc = [p \in Procs |-> "off"]
    /\ foreign = 0
    /\ met = {}
    /\ touched = {}
    /\ refused = {}

Running(p) == pc[p] \in {"check", "again", "act", "drop"}
Does(p, name) == todo[p] # <<>> /\ Head(todo[p]).name = name
What(p) == Head(todo[p]).what

Has(c, r) == \E i \in DOMAIN rules[c] : rules[c][i] = r
Present(w) == IF w = "EDGEMESH" THEN w \in chains ELSE Has(ChainOf[w], w)

\* The kernel takes a rule only into a chain it has, with a target it has.
Accepts(r) == ChainOf[r] \in chains /\ "EDGEMESH" \in chains

Begin(p) ==
    /\ pc[p] = "off"
    /\ pc' = [pc EXCEPT ![p] = "check"]
    /\ met' = met \cup {{p, q} : q \in {x \in Procs : Running(x)}}
    /\ UNCHANGED <<kernel, todo, foreign, touched, refused>>

\* The operation returns nil; the program goes on to its next one or ends.
Return(p) ==
    /\ todo' = [todo EXCEPT ![p] = Tail(@)]
    /\ pc' = [pc EXCEPT ![p] = IF Len(todo[p]) = 1 THEN "done" ELSE "check"]

Goto(p, step) == pc' = [pc EXCEPT ![p] = step] /\ UNCHANGED todo

\* The operation returns the error of a command that cannot be carried out
\* on what the kernel has; main prints it and returns.
Refuse(p) ==
    /\ Goto(p, "failed")
    /\ refused' = refused \cup {p}
    /\ UNCHANGED <<kernel, foreign, met, touched>>

Removed == touched' = {p \in Procs : pc[p] # "off"}
-----------------------------------------------------------------------------
(* Exists and ChainExists: each operation returns at once when what it is  *)
(* to bring about holds.                                                   *)

\* Seeded fault: a rule is inserted without looking for it.
CheckNotForInsert(p) ==
    /\ pc[p] = "check"
    /\ IF ~Does(p, "InsertUnique") /\ Present(What(p)) = (Does(p, "NewChain") \/ Does(p, "Append"))
       THEN Return(p)
       ELSE Goto(p, IF Does(p, "Append") THEN "again" ELSE "act")
    /\ UNCHANGED <<kernel, history>>

Check(p) ==
    /\ pc[p] = "check"
    /\ IF Present(What(p)) = (Does(p, "NewChain") \/ Does(p, "InsertUnique") \/ Does(p, "Append"))
       THEN Return(p)
       ELSE Goto(p, IF Does(p, "Append") THEN "again" ELSE "act")
    /\ UNCHANGED <<kernel, history>>

\* Append ends in AppendUnique, which looks once more.
AppendUnique(p) ==
    /\ pc[p] = "again"
    /\ IF Present(What(p)) THEN Return(p) ELSE Goto(p, "act")
    /\ UNCHANGED <<kernel, history>>
-----------------------------------------------------------------------------
NewChain(p) ==
    /\ pc[p] = "act"
    /\ Does(p, "NewChain")
    /\ \/ /\ What(p) \notin chains
          /\ chains' = chains \cup {What(p)}
          /\ Return(p)
          /\ UNCHANGED <<rules, history>>
       \/ What(p) \in chains /\ Refuse(p)

\* main.go inserts at position 1.
InsertUnique(p) ==
    /\ pc[p] = "act"
    /\ Does(p, "InsertUnique")
    /\ \/ /\ Accepts(What(p))
          /\ rules' = [rules EXCEPT ![ChainOf[What(p)]] = <<What(p)>> \o @]
          /\ Return(p)
          /\ UNCHANGED <<chains, history>>
       \/ ~Accepts(What(p)) /\ Refuse(p)

\* Seeded fault: the rule goes to the end of the other chain.
AppendElsewhere(p) ==
    /\ pc[p] = "act"
    /\ Does(p, "Append")
    /\ \/ /\ Accepts(What(p))
          /\ rules' = [rules EXCEPT !["PREROUTING"] = Append(@, What(p))]
          /\ Return(p)
          /\ UNCHANGED <<chains, history>>
       \/ ~Accepts(What(p)) /\ Refuse(p)

AppendRule(p) ==
    /\ pc[p] = "act"
    /\ Does(p, "Append")
    /\ \/ /\ Accepts(What(p))
          /\ rules' = [rules EXCEPT ![ChainOf[What(p)]] = Append(@, What(p))]
          /\ Return(p)
          /\ UNCHANGED <<chains, history>>
       \/ ~Accepts(What(p)) /\ Refuse(p)

\* Delete takes the first copy of the rule.
Delete(p) ==
    /\ pc[p] = "act"
    /\ Does(p, "Delete")
    /\ LET c == ChainOf[What(p)] IN
       \/ \E i \in DOMAIN rules[c] :
            /\ rules[c][i] = What(p)
            /\ \A j \in 1 .. (i - 1) : rules[c][j] # What(p)
            /\ rules' = [rules EXCEPT ![c] = RemoveAt(@, i)]
            /\ Removed
            /\ Return(p)
            /\ UNCHANGED <<chains, foreign, met, refused>>
       \/ ~Has(c, What(p)) /\ Refuse(p)

\* ClearAndDeleteChain: flush, then delete.
FlushChain(p) ==
    /\ pc[p] = "act"
    /\ Does(p, "ClearChain")
    /\ \/ /\ What(p) \in chains
          /\ rules' = [rules EXCEPT ![What(p)] = <<>>]
          /\ Removed
          /\ Goto(p, "drop")
          /\ UNCHANGED <<chains, foreign, met, refused>>
       \/ What(p) \notin chains /\ Refuse(p)

\* The kernel keeps a chain that has rules or that a rule jumps to.
DeleteChain(p) ==
    /\ pc[p] = "drop"
    /\ \/ /\ What(p) \in chains
          /\ rules[What(p)] = <<>>
          /\ ~Referenced(rules, What(p))
          /\ chains' = chains \ {What(p)}
          /\ Removed
          /\ Return(p)
          /\ UNCHANGED <<rules, foreign, met, refused>>
       \/ /\ \/ What(p) \notin chains
             \/ rules[What(p)] # <<>>
             \/ Referenced(rules, What(p))
          /\ Refuse(p)
-----------------------------------------------------------------------------
\* A command fails for a reason of its own (the lock is not free in time,
\* iptables cannot run, it does not answer about a chain it has not), or
\* main cannot read its configuration.
CommandFails(p) ==
    /\ Running(p)
    /\ Goto(p, "failed")
    /\ UNCHANGED <<kernel, history>>

Crash(p) ==
    /\ Running(p)
    /\ Goto(p, "killed")
    /\ UNCHANGED <<kernel, history>>

\* kube-proxy and others put rules of their own before ours.
ForeignInsert ==
    /\ foreign < MaxForeign
    /\ foreign' = foreign + 1
    /\ rules' = [rules EXCEPT !["PREROUTING"] = <<"foreign">> \o @]
    /\ UNCHANGED <<chains, todo, pc, met, touched, refused>>

Step(p) ==
    \/ Begin(p) \/ Check(p) \/ AppendUnique(p)
    \/ NewChain(p) \/ InsertUnique(p) \/ AppendRule(p)
    \/ Delete(p) \/ FlushChain(p) \/ DeleteChain(p)
    \/ CommandFails(p) \/ Crash(p)

Next == ForeignInsert \/ \E p \in Procs : Step(p)

Spec == Init /\ [][Next]_vars
-----------------------------------------------------------------------------
TypeOK ==
    /\ chains \subseteq Chains
    /\ rules \in [Chains -> Seq(Rules)]
    /\ todo \in [Procs -> Seq(Operations)]
    /\ \A p \in Procs : Running(p) => todo[p] # <<>>
    /\ pc \in [Procs -> {"off", "check", "again", "act", "drop", "done", "failed", "killed"}]
    /\ foreign \in 0 .. MaxForeign
    /\ met \in SUBSET SUBSET Procs
    /\ touched \subseteq Procs
    /\ refused \subseteq Procs

\* A start that ran to its end leaves the chain and both rules in place,
\* whatever starts ran beside it or ended half way before it, unless a
\* program removed something since the start began.
AppliedOrRemoved ==
    \A p \in Starts \ touched :
        pc[p] = "done" => "EDGEMESH" \in chains /\ Has("PREROUTING", "jump") /\ Has("EDGEMESH", "dnat")

\* "Unique": a rule is there twice only if two starts ran at the same time,
\* so that both found it missing.  Kills, failures, removals and starts one
\* after the other never double it.
TwiceOnlyIfMet ==
    \A r \in Ours :
        (\E i, j \in DOMAIN rules[ChainOf[r]] :
            i # j /\ rules[ChainOf[r]][i] = r /\ rules[ChainOf[r]][j] = r)
        => \E p, q \in Starts : p # q /\ {p, q} \in met

\* The wrappers are idempotent: the kernel refuses a command of a start only
\* if another process ran beside it; what earlier starts left behind, whole
\* or in part, never makes a later one fail.
RefusedOnlyIfMet ==
    \A p \in Starts \cap refused : \E q \in Procs \ {p} : {p, q} \in met
================================================================================
