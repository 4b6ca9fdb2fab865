------------------------------ MODULE SkelProofs ------------------------------
(* Proofs about Skel, for any versions that the plugin supports, that came  *)
(* with CHECK and that configurations declare.                              *)
EXTENDS Skel, TLAPS

Asked == {"ADD", "CHECK", "DEL"}

\* What cannot be missing or bad from the start.
InputKept ==
    /\ unset \subseteq EnvVars \ {"CNI_COMMAND", "CNI_ARGS"}
    /\ invalid \subseteq {"CNI_CONTAINERID", "CNI_IFNAME"}

\* What the steps so far have made sure of: each step is reached only through
\* the checks before it.
ContainerFine == "CNI_CONTAINERID" \notin unset \cup invalid
InterfaceFine == "CNI_IFNAME" \notin unset \cup invalid

Validated ==
    /\ step \notin {"env", "return", "ended"} => cmd # "" /\ \A v \in unset : ~Required(v)
    /\ step \in {"config", "container", "interface"} => cmd # "VERSION" /\ stdin # "unreadable"
    /\ step \in {"container", "interface", "since", "version", "call"} => stdin = "ok"
    /\ step \in {"interface", "since", "version", "call"} => ContainerFine
    /\ step \in {"since", "version", "call"} => InterfaceFine /\ cmd \in Asked
    /\ step = "dispatch" /\ cmd # "VERSION" => stdin = "ok" /\ ContainerFine /\ InterfaceFine
    /\ step = "encode" => cmd = "VERSION"
    /\ step = "since" => cmd = "CHECK"
    /\ step \in {"version", "call"} /\ cmd = "CHECK" => confVersion >= CheckSince
    /\ step = "call" => confVersion \in Supported

\* Nothing was called, printed or found wrong before pluginMain returns, and
\* what it returns without an error is what was asked.
Outcome ==
    /\ step \notin {"return", "ended"} => called = "" /\ err = 0 /\ stdout = "nothing"
    /\ step # "ended" => exit = Running /\ stdout # "error"
    /\ step \in {"return", "ended"} /\ err = 0 =>
          called = (IF cmd \in Asked THEN cmd ELSE "")
    /\ stdout \in {"result", "versions"} => err = 0
    /\ step = "ended" => exit = (IF err = 0 THEN 0 ELSE 1)
    /\ step = "ended" /\ stdout = "error" => err # 0

IInv == TypeOK /\ InputKept /\ Validated /\ Outcome /\ CalledOnlyIfValid /\ ErrorIsReason

USE DEF Asked

\* The codes are told apart by what they are, which is all that is used of them.
LEMMA CodesDiffer ==
    /\ 0 \notin Codes
    /\ {IncompatibleCNIVersion, UnknownContainer, InvalidEnvironmentVariables, IOFailure} \subseteq Codes
    /\ {DecodingFailure, InvalidNetworkConfig, CallbackCode, Internal} \subseteq Codes
    /\ IncompatibleCNIVersion \notin {UnknownContainer, InvalidEnvironmentVariables, IOFailure,
                                     DecodingFailure, InvalidNetworkConfig, CallbackCode, Internal}
    /\ UnknownContainer \notin {InvalidEnvironmentVariables, IOFailure, DecodingFailure,
                               InvalidNetworkConfig, CallbackCode, Internal}
    /\ InvalidEnvironmentVariables \notin {IOFailure, DecodingFailure, InvalidNetworkConfig,
                                          CallbackCode, Internal}
    /\ IOFailure \notin {DecodingFailure, InvalidNetworkConfig, CallbackCode, Internal}
    /\ DecodingFailure \notin {InvalidNetworkConfig, CallbackCode, Internal}
    /\ InvalidNetworkConfig \notin {CallbackCode, Internal}
  BY DEF Codes, IncompatibleCNIVersion, UnknownContainer, InvalidEnvironmentVariables, IOFailure,
     DecodingFailure, InvalidNetworkConfig, CallbackCode, Internal

LEMMA RunningIsNoCode == Running \notin {0, 1}
  BY DEF Running

\* At the call of a callback its input was found valid in full.
LEMMA CallIsValid ==
    ASSUME IInv, step = "call"
    PROVE  /\ unset \subseteq IF cmd = "DEL" THEN {"CNI_NETNS"} ELSE {}
           /\ invalid = {} /\ stdin = "ok"
           /\ confVersion \in Supported
           /\ cmd = "CHECK" => confVersion >= CheckSince
<1>1. \A v \in unset : ~Required(v)
  BY DEF IInv, Validated
<1>2. cmd \in Asked
  BY DEF IInv, Validated
<1>3. unset \subseteq IF cmd = "DEL" THEN {"CNI_NETNS"} ELSE {}
  BY <1>1, <1>2 DEF IInv, InputKept, Required, EnvVars
<1>4. invalid = {}
  BY DEF IInv, InputKept, Validated, ContainerFine, InterfaceFine
<1> QED
  BY <1>3, <1>4 DEF IInv, Validated

LEMMA StartsRight == Init => IInv
<1> SUFFICES ASSUME Init PROVE IInv
  OBVIOUS
<1>1. TypeOK
  BY DEF Init, TypeOK, Commands, EnvVars
<1>2. InputKept /\ Validated /\ Outcome
  BY RunningIsNoCode DEF Init, InputKept, Validated, Outcome
<1>3. CalledOnlyIfValid /\ ErrorIsReason
  BY CodesDiffer DEF Init, CalledOnlyIfValid, ErrorIsReason
<1> QED
  BY <1>1, <1>2, <1>3 DEF IInv

USE DEF input, Goto, Succeed, Fail, Check

LEMMA InputStep == IInv /\ [Next]_vars => InputKept' /\ UNCHANGED input
<1> SUFFICES ASSUME IInv, [Next]_vars PROVE UNCHANGED input
  BY DEF IInv, InputKept
<1> QED
  BY DEF Next, vars, Getenv, ReadStdin, ValidateConfig, ValidateContainerID,
     ValidateInterfaceName, Dispatch, EncodeVersions, CheckAllowed, CheckVersion, Call,
     Returns, PluginMain

LEMMA TypeStep == IInv /\ [Next]_vars => TypeOK'
<1> SUFFICES ASSUME TypeOK, [Next]_vars, UNCHANGED input PROVE TypeOK'
  BY InputStep DEF IInv
<1>0. /\ step \in {"env", "stdin", "config", "container", "interface", "dispatch", "encode",
                   "since", "version", "call", "return", "ended"}
      /\ called \in Commands /\ stdout \in {"nothing", "versions", "result", "error"}
      /\ cmd \in Commands
  BY DEF TypeOK
<1>1. /\ step' \in {"env", "stdin", "config", "container", "interface", "dispatch", "encode",
                    "since", "version", "call", "return", "ended"}
      /\ called' \in Commands /\ stdout' \in {"nothing", "versions", "result", "error"}
  <2>1. CASE Getenv \/ ReadStdin \/ ValidateConfig
    BY <1>0, <2>1 DEF Getenv, ReadStdin, ValidateConfig
  <2>2. CASE ValidateContainerID \/ ValidateInterfaceName \/ Dispatch
    BY <1>0, <2>2 DEF ValidateContainerID, ValidateInterfaceName, Dispatch
  <2>3. CASE EncodeVersions \/ CheckAllowed \/ CheckVersion
    BY <1>0, <2>3 DEF EncodeVersions, CheckAllowed, CheckVersion
  <2>4. CASE Call \/ PluginMain \/ UNCHANGED vars
    BY <1>0, <2>4 DEF Call, Returns, PluginMain, vars
  <2> QED
    BY <2>1, <2>2, <2>3, <2>4 DEF Next
<1>2. err' \in Codes \cup {0}
  <2>0. err \in Codes \cup {0}
    BY DEF TypeOK
  <2>1. CASE Getenv \/ ReadStdin \/ ValidateConfig \/ ValidateContainerID \/ ValidateInterfaceName
    BY <2>0, <2>1, CodesDiffer DEF Getenv, ReadStdin, ValidateConfig, ValidateContainerID,
       ValidateInterfaceName
  <2>2. CASE Dispatch \/ EncodeVersions \/ CheckAllowed \/ CheckVersion
    BY <2>0, <2>2, CodesDiffer DEF Dispatch, EncodeVersions, CheckAllowed, CheckVersion
  <2>3. CASE Call
    BY <2>3, CodesDiffer DEF Call, Returns
  <2>4. CASE PluginMain \/ UNCHANGED vars
    BY <2>0, <2>4 DEF PluginMain, vars
  <2> QED
    BY <2>1, <2>2, <2>3, <2>4 DEF Next
<1>3. exit' \in {0, 1, Running}
  <2>0. exit \in {0, 1, Running}
    BY DEF TypeOK
  <2> QED
    BY <2>0 DEF Next, vars, Getenv, ReadStdin, ValidateConfig, ValidateContainerID,
       ValidateInterfaceName, Dispatch, EncodeVersions, CheckAllowed, CheckVersion, Call,
       Returns, PluginMain
<1> QED
  BY <1>1, <1>2, <1>3 DEF TypeOK

LEMMA ValidStep == IInv /\ [Next]_vars => Validated'
<1> SUFFICES ASSUME IInv, [Next]_vars PROVE Validated'
  OBVIOUS
<1> USE DEF IInv, TypeOK, Validated, ContainerFine, InterfaceFine
<1>1. (\A v \in unset : ~Required(v)) => (\A v \in unset : ~Required(v))'
  BY InputStep DEF Required
<1>2. CASE Getenv
  BY <1>1, <1>2 DEF Getenv
<1>3. CASE ReadStdin \/ ValidateConfig
  BY <1>1, <1>3 DEF ReadStdin, ValidateConfig
<1>4. CASE ValidateContainerID \/ ValidateInterfaceName
  BY <1>1, <1>4 DEF ValidateContainerID, ValidateInterfaceName
<1>5. CASE Dispatch \/ EncodeVersions
  BY <1>1, <1>5 DEF Dispatch, EncodeVersions
<1>6. CASE CheckAllowed \/ CheckVersion
  BY <1>1, <1>6 DEF CheckAllowed, CheckVersion, HasCheck
<1>7. CASE Call \/ PluginMain
  BY <1>7 DEF Call, Returns, PluginMain
<1>8. CASE UNCHANGED vars
  BY <1>1, <1>8 DEF vars
<1> QED
  BY <1>2, <1>3, <1>4, <1>5, <1>6, <1>7, <1>8 DEF Next

LEMMA OutcomeStep == IInv /\ [Next]_vars => Outcome'
<1> SUFFICES ASSUME IInv, [Next]_vars PROVE Outcome'
  OBVIOUS
<1> USE CodesDiffer DEF IInv, TypeOK, Outcome
<1>1. CASE Getenv \/ ReadStdin \/ ValidateConfig
  BY <1>1 DEF Getenv, ReadStdin, ValidateConfig
<1>2. CASE ValidateContainerID \/ ValidateInterfaceName \/ Dispatch
  BY <1>2 DEF ValidateContainerID, ValidateInterfaceName, Dispatch
<1>3. CASE EncodeVersions \/ CheckAllowed \/ CheckVersion
  BY <1>3 DEF EncodeVersions, CheckAllowed, CheckVersion, Validated
<1>4. CASE Call
  BY <1>4 DEF Call, Returns, Validated
<1>5. CASE PluginMain
  BY <1>5 DEF PluginMain
<1>6. CASE UNCHANGED vars
  BY <1>6 DEF vars
<1> QED
  BY <1>1, <1>2, <1>3, <1>4, <1>5, <1>6 DEF Next

\* Only Call calls, and nothing changes the input afterwards.
LEMMA CalledStep == IInv /\ [Next]_vars => CalledOnlyIfValid'
<1> SUFFICES ASSUME IInv, [Next]_vars PROVE CalledOnlyIfValid'
  OBVIOUS
<1>1. CASE Call
  BY <1>1, CallIsValid DEF Call, Returns, CalledOnlyIfValid
<1>2. CASE ~Call
  <2>1. called' = called
    BY <1>2 DEF Next, vars, Getenv, ReadStdin, ValidateConfig, ValidateContainerID,
       ValidateInterfaceName, Dispatch, EncodeVersions, CheckAllowed, CheckVersion, PluginMain
  <2> QED
    BY <2>1, InputStep DEF IInv, CalledOnlyIfValid
<1> QED
  BY <1>1, <1>2

LEMMA ReasonStep == IInv /\ [Next]_vars => ErrorIsReason'
<1> SUFFICES ASSUME IInv, [Next]_vars PROVE ErrorIsReason'
  OBVIOUS
<1> USE CodesDiffer
<1>0. step \notin {"return", "ended"} => err = 0
  BY DEF IInv, Outcome
<1>1. CASE Getenv
  BY <1>0, <1>1 DEF Getenv, ErrorIsReason
<1>2. CASE ReadStdin
  BY <1>0, <1>2 DEF ReadStdin, ErrorIsReason
<1>10. CASE ValidateConfig
  <2>1. stdin \in {"not json", "no name", "bad name", "ok", "unreadable"} /\ cmd # "VERSION"
    BY <1>10 DEF ValidateConfig, IInv, TypeOK, Validated
  <2>2. stdin # "unreadable"
    BY <1>10 DEF ValidateConfig, IInv, Validated
  <2> QED
    BY <1>0, <1>10, <2>1, <2>2 DEF ValidateConfig, ErrorIsReason
<1>3. CASE ValidateContainerID
  <2>1. cmd \in {"other"} \cup Asked /\ \A v \in unset : ~Required(v)
    BY <1>3 DEF ValidateContainerID, IInv, TypeOK, Commands, Validated
  <2>2. "CNI_CONTAINERID" \in unset => cmd = "other"
    BY <2>1 DEF Required, EnvVars
  <2> QED
    BY <1>0, <1>3, <2>2 DEF ValidateContainerID, ErrorIsReason
<1>4. CASE ValidateInterfaceName \/ Dispatch
  BY <1>0, <1>4 DEF ValidateInterfaceName, Dispatch, ErrorIsReason
<1>5. CASE EncodeVersions
  BY <1>0, <1>5 DEF EncodeVersions, ErrorIsReason, IInv, Validated
<1>6. CASE CheckAllowed
  <2>1. cmd = "CHECK" /\ step = "since"
    BY <1>6 DEF CheckAllowed, IInv, Validated
  <2>2. CASE confVersion \in {NotAString, NotANumber}
    BY <1>0, <1>6, <2>2, <2>1 DEF CheckAllowed, ErrorIsReason
  <2>3. CASE confVersion \notin {NotAString, NotANumber}
    <3>1. confVersion \in Nat
      BY <2>3, SkelAssumption DEF IInv, TypeOK
    <3>2. confVersion \in Supported => \E s \in Supported : s >= confVersion
      BY <3>1
    <3>3. err' \in {0, IncompatibleCNIVersion}
      BY <1>0, <1>6, <2>1, <2>3 DEF CheckAllowed
    <3>4. err' = IncompatibleCNIVersion =>
            confVersion \notin Supported \/ confVersion < CheckSince
      BY <1>0, <1>6, <2>1, <2>3, <3>1, <3>2, SkelAssumption DEF CheckAllowed, HasCheck
    <3> QED
      BY <2>1, <3>3, <3>4, InputStep DEF ErrorIsReason
  <2> QED
    BY <2>2, <2>3
<1>7. CASE CheckVersion
  BY <1>0, <1>7 DEF CheckVersion, ErrorIsReason
<1>8. CASE Call
  BY <1>8 DEF Call, Returns, ErrorIsReason
<1>9. CASE PluginMain \/ UNCHANGED vars
  <2>1. UNCHANGED <<input, err, called>>
    BY <1>9 DEF PluginMain, vars
  <2> QED
    BY <2>1 DEF IInv, ErrorIsReason
<1> QED
  BY <1>1, <1>2, <1>10, <1>3, <1>4, <1>5, <1>6, <1>7, <1>8, <1>9 DEF Next

LEMMA Invariant == Spec => []IInv
<1>1. IInv /\ [Next]_vars => IInv'
  BY TypeStep, InputStep, ValidStep, OutcomeStep, CalledStep, ReasonStep DEF IInv
<1> QED
  BY StartsRight, <1>1, PTL DEF Spec

\* Every step keeps every variable in its type, whatever the versions are.
THEOREM SkelTyped == Spec => []TypeOK
<1>1. IInv => TypeOK
  BY DEF IInv
<1> QED
  BY Invariant, <1>1, PTL

\* pluginMain calls a callback for no input but one it has found valid in full.
THEOREM OnlyValidCalls == Spec => []CalledOnlyIfValid
<1>1. IInv => CalledOnlyIfValid
  BY DEF IInv
<1> QED
  BY Invariant, <1>1, PTL

\* The code of the error that pluginMain returns says what is wrong.
THEOREM ErrorsAreReasons == Spec => []ErrorIsReason
<1>1. IInv => ErrorIsReason
  BY DEF IInv
<1> QED
  BY Invariant, <1>1, PTL

\* PluginMain's exit code and output say what became of the call.
THEOREM OutcomeTold == Spec => []ExitTells
<1>1. IInv => ExitTells
  <2> SUFFICES ASSUME IInv, exit # Running PROVE ExitTells
    BY DEF ExitTells
  <2>1. step = "ended"
    BY DEF IInv, Outcome
  <2>2. exit = (IF err = 0 THEN 0 ELSE 1)
    BY <2>1 DEF IInv, Outcome
  <2>3. exit = 0 <=> err = 0
    BY <2>2
  <2> QED
    BY <2>1, <2>2, <2>3 DEF IInv, Outcome, ExitTells
<1> QED
  BY Invariant, <1>1, PTL
================================================================================
