--------------------------------- MODULE Skel ---------------------------------
(***************************************************************************)
(* One call of the CNI plugin by the container runtime                     *)
(* (cnis/vlhostcni/pkg/skel/skel.go, cmd/cni/main.go): the dispatcher      *)
(* reads the environment and stdin, validates both, compares versions,     *)
(* calls cmdAdd, cmdCheck or cmdDel, and tells the runtime the outcome on  *)
(* stdout and with the exit code.  What the callbacks do is in Ipam and    *)
(* HostNetwork.                                                            *)
(***************************************************************************)
EXTENDS Naturals

CONSTANTS
    Supported,      \* the versions of the specification the plugin supports
    CheckSince,     \* the first version with CHECK, 0.4.0
    Declared,       \* the versions that configurations declare
    NotAString,     \* a version that is another JSON value than a string
    NotANumber      \* a string that is no version

ASSUME SkelAssumption ==
    /\ Supported \subseteq Nat /\ Supported # {} /\ CheckSince \in Nat /\ Declared \subseteq Nat
    /\ NotAString \notin Nat /\ NotANumber \notin Nat

Commands == {"ADD", "CHECK", "DEL", "VERSION", "other", ""}
EnvVars == {"CNI_COMMAND", "CNI_CONTAINERID", "CNI_NETNS", "CNI_IFNAME", "CNI_ARGS", "CNI_PATH"}

\* The codes of types.Error, and what a callback may choose itself.
IncompatibleCNIVersion == 1
UnknownContainer == 3
InvalidEnvironmentVariables == 4
IOFailure == 5
DecodingFailure == 6
InvalidNetworkConfig == 7
CallbackCode == 100
Internal == 999

Codes == {IncompatibleCNIVersion, UnknownContainer, InvalidEnvironmentVariables, IOFailure,
          DecodingFailure, InvalidNetworkConfig, CallbackCode, Internal}

VARIABLES
    cmd,            \* CNI_COMMAND, "" if it is not set
    unset,          \* the other variables of the environment that are not set
    invalid,        \* those of CNI_CONTAINERID and CNI_IFNAME with a bad value
    stdin,          \* what stdin gives
    confVersion,    \* the version the configuration declares
    stdoutFails,    \* nothing can be written to stdout
    step,           \* where pluginMain is
    called,         \* the callback that was called, "" before
    err,            \* the code of the error that is returned, 0 for none
    stdout,         \* what was printed
    exit            \* the exit code, Running before

input == <<cmd, unset, invalid, stdin, confVersion, stdoutFails>>
vars == <<input, step, called, err, stdout, exit>>

Running == 255

Init ==
    /\ cmd \in Commands
    /\ unset \in SUBSET (EnvVars \ {"CNI_COMMAND", "CNI_ARGS"})
    /\ invalid \in SUBSET ({"CNI_CONTAINERID", "CNI_IFNAME"} \ unset)
    /\ stdin \in {"unreadable", "not json", "no name", "bad name", "ok"}
    /\ confVersion \in Declared \cup {NotAString, NotANumber}
    /\ stdoutFails \in BOOLEAN
    /\ step = "env" /\ called = "" /\ err = 0 /\ stdout = "nothing" /\ exit = Running
-------------------------------------------------------------------------------
Goto(s) == step' = s /\ UNCHANGED <<input, called, err, stdout, exit>>

\* pluginMain returns an error, or nil.
Fail(code) == step' = "return" /\ err' = code /\ UNCHANGED <<input, called, stdout, exit>>
Succeed == Goto("return")

\* A check that returns code when it fails, and else goes on to the next step.
Check(ok, code, next) == IF ok THEN Goto(next) ELSE Fail(code)

\* Seeded fault: the command is read after the others, so that nothing is asked.
RequiredTooLate(v) == FALSE

\* reqForCmd: the command is read first, and says what else has to be there.
Required(v) ==
    /\ cmd \in {"ADD", "CHECK", "DEL"}
    /\ v \in EnvVars \ {"CNI_ARGS"}
    /\ v = "CNI_NETNS" => cmd # "DEL"

\* Without a command the plugin tells about itself, which is no error.
Getenv ==
    /\ step = "env"
    /\ IF cmd = "" THEN Succeed
       ELSE Check(\A v \in unset : ~Required(v), InvalidEnvironmentVariables, "stdin")

\* VERSION takes nothing from stdin, and nothing else of it is validated.
ReadStdin ==
    /\ step = "stdin"
    /\ IF cmd = "VERSION" THEN Goto("dispatch")
       ELSE Check(stdin # "unreadable", IOFailure, "config")

ValidateConfig ==
    /\ step = "config"
    /\ IF stdin = "not json" THEN Fail(DecodingFailure)
       ELSE Check(stdin = "ok", InvalidNetworkConfig, "container")

ValidateContainerID ==
    /\ step = "container"
    /\ IF "CNI_CONTAINERID" \in unset THEN Fail(UnknownContainer)
       ELSE Check("CNI_CONTAINERID" \notin invalid, InvalidEnvironmentVariables, "interface")

ValidateInterfaceName ==
    /\ step = "interface"
    /\ Check("CNI_IFNAME" \notin unset \cup invalid, InvalidEnvironmentVariables, "dispatch")

\* The switch of pluginMain: a command nobody knows is told only here.
Dispatch ==
    /\ step = "dispatch"
    /\ \/ cmd = "VERSION" /\ Goto("encode")
       \/ cmd = "CHECK" /\ Goto("since")
       \/ cmd \in {"ADD", "DEL"} /\ Goto("version")
       \/ cmd = "other" /\ Fail(InvalidEnvironmentVariables)

EncodeVersions ==
    /\ step = "encode"
    /\ IF stdoutFails THEN Fail(IOFailure)
       ELSE step' = "return" /\ stdout' = "versions" /\ UNCHANGED <<input, called, err, exit>>

\* Seeded fault: the first version with CHECK is excluded.
HasCheckAfter(v) == v > CheckSince

HasCheck(v) == v >= CheckSince

\* CHECK needs a version that has it, and some supported one that is not older.
CheckAllowed ==
    /\ step = "since"
    /\ IF confVersion \in {NotAString, NotANumber} THEN Fail(DecodingFailure)
       ELSE Check(HasCheck(confVersion) /\ \E s \in Supported : s >= confVersion,
                  IncompatibleCNIVersion, "version")

\* checkVersionAndCall: the declared version has to be a supported one.
CheckVersion ==
    /\ step = "version"
    /\ IF confVersion = NotAString THEN Fail(DecodingFailure)
       ELSE Check(confVersion \in Supported, IncompatibleCNIVersion, "call")

\* A types.Error of the callback is passed on, another error wrapped.  cmdAdd
\* prints its result, and does not look whether that worked.
Returns(code) ==
    /\ step' = "return" /\ called' = cmd
    /\ err' = code
    /\ stdout' = IF code = 0 /\ cmd = "ADD" /\ ~stdoutFails THEN "result" ELSE stdout
    /\ UNCHANGED <<input, exit>>

\* cmdCheck and cmdDel return nil whatever they are asked.
Call ==
    /\ step = "call"
    /\ \E code \in IF cmd = "ADD" THEN {0, CallbackCode, Internal} ELSE {0} : Returns(code)

\* PluginMain prints an error and exits with 1, whether it could be printed or not.
PluginMain ==
    /\ step = "return"
    /\ step' = "ended"
    /\ exit' = IF err = 0 THEN 0 ELSE 1
    /\ stdout' = IF err = 0 \/ stdoutFails THEN stdout ELSE "error"
    /\ UNCHANGED <<input, called, err>>

Next ==
    \/ Getenv \/ ReadStdin
    \/ ValidateConfig \/ ValidateContainerID \/ ValidateInterfaceName
    \/ Dispatch \/ EncodeVersions \/ CheckAllowed \/ CheckVersion \/ Call
    \/ PluginMain

Spec == Init /\ [][Next]_vars
-------------------------------------------------------------------------------
(* Properties.                                                             *)

TypeOK ==
    /\ cmd \in Commands /\ unset \subseteq EnvVars /\ invalid \subseteq EnvVars
    /\ stdin \in {"unreadable", "not json", "no name", "bad name", "ok"}
    /\ confVersion \in Declared \cup {NotAString, NotANumber} /\ stdoutFails \in BOOLEAN
    /\ step \in {"env", "stdin", "config", "container", "interface", "dispatch", "encode",
                 "since", "version", "call", "return", "ended"}
    /\ called \in Commands
    /\ err \in Codes \cup {0}
    /\ stdout \in {"nothing", "versions", "result", "error"} /\ exit \in {0, 1, Running}

\* A callback, which gives out an address, is called for no other input than one
\* with every variable its command needs, valid names, and a version that the
\* plugin supports and that has the command (skel.go:62-150, 158-177, 213-223).
CalledOnlyIfValid ==
    called # "" =>
        /\ unset \subseteq IF cmd = "DEL" THEN {"CNI_NETNS"} ELSE {}
        /\ invalid = {} /\ stdin = "ok"
        /\ confVersion \in Supported
        /\ cmd = "CHECK" => confVersion >= CheckSince

\* The code that the runtime gets is the reason: what it names is wrong with the
\* input, and an unknown container is reported only for an unknown command, since
\* for the others its variable is required (skel.go:130-139, 180-193, 195-264).
ErrorIsReason ==
    /\ err = IncompatibleCNIVersion => \/ confVersion \notin Supported
                                       \/ cmd = "CHECK" /\ confVersion < CheckSince
    /\ err = UnknownContainer => cmd = "other" /\ "CNI_CONTAINERID" \in unset
    /\ err = InvalidEnvironmentVariables => unset \cup invalid # {} \/ cmd = "other"
    /\ err = IOFailure => IF cmd = "VERSION" THEN stdoutFails ELSE stdin = "unreadable"
    /\ err = DecodingFailure =>
          stdin = "not json" \/ confVersion \in {NotAString, NotANumber}
    /\ err = InvalidNetworkConfig => stdin \in {"no name", "bad name"}
    /\ err \in {CallbackCode, Internal} => called = "ADD"

\* The runtime can go by the exit code: zero says that the callback of the command
\* was called and returned no error, or that none was asked for; and an error is
\* printed in place of a result, never after one (skel.go:266-308).
ExitTells ==
    exit # Running =>
        /\ exit = 0 <=> err = 0
        /\ exit = 0 => called = (IF cmd \in {"ADD", "CHECK", "DEL"} THEN cmd ELSE "")
        /\ stdout = "error" => exit = 1
        /\ stdout \in {"result", "versions"} => exit = 0
================================================================================
