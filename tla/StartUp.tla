------------------------------- MODULE StartUp -------------------------------
(***************************************************************************)
(* How the two programs come by their configuration and start              *)
(* (initConfig of both main.go, the Init...Config functions of common.go,  *)
(* InitService, and the tickers that the first thing a service does is to  *)
(* make).  A value goes through up to three layers, the JSON file, the     *)
(* flags, the environment with .env, and what is wrong with it is treated  *)
(* differently in each: it stops the decoding, ends the program, or is     *)
(* ignored.  All fields can be set in all layers, and so a field stands    *)
(* for its JSON member, its flag and its variable too.                     *)
(***************************************************************************)
EXTENDS Integers, Sequences

CONSTANTS
  Texts,      \* the strings that are given as values
  Empty,      \* the one of them that is empty
  Durations,  \* what time.ParseDuration makes of a text
  Bools,      \* what strconv.ParseBool makes of it
  KeyFiles,   \* what reading the file of this name as a key gives
  Keys,       \* RSA keys
  Bad,        \* an error of these functions
  NoPEM,      \* a file in which pem.Decode finds no block
  Other,      \* a JSON value that is neither a string nor true or false
  Nil,        \* the nil pointer
  Default,    \* Config, as main.go initializes it, of each program
  Inputs      \* the ways in which the programs are started

AgentFields == {"Address", "PollInterval", "ReportInterval", "CryptoKey", "Key"}

ServerFields ==
  {"Address", "StoreInterval", "StoreFile", "IsRestore", "CryptoKey", "DataBaseDSN", "Key",
   "TrustedSubnet"}

FieldsOf(program) == IF program = "agent" THEN AgentFields ELSE ServerFields

Intervals == {"PollInterval", "ReportInterval", "StoreInterval"}

\* The values a field can have.
ValuesOf(f) ==
  CASE f \in Intervals -> Int
    [] f = "IsRestore" -> BOOLEAN
    [] f = "CryptoKey" -> Keys \cup {Nil}
    [] OTHER -> Texts

\* What the three parsers of the standard library, and readPublicCryptoKey or
\* readPrivateCryptoKey, make of a text; a text field takes it as it is.
Parsed(f, t) ==
  CASE f \in Intervals -> Durations[t]
    [] f = "IsRestore" -> Bools[t]
    [] f = "CryptoKey" -> KeyFiles[t]
    [] OTHER -> t

ASSUME TextsAssumption ==
  /\ Empty \in Texts
  /\ Durations \in [Texts -> Int \cup {Bad}] /\ Durations[Empty] = Bad
  /\ Bools \in [Texts -> BOOLEAN \cup {Bad}]
  /\ KeyFiles \in [Texts -> Keys \cup {Bad, NoPEM}] /\ KeyFiles[Empty] = Bad
ASSUME OddValuesAssumption ==
  /\ {Bad, NoPEM, Other} \cap (Texts \cup Keys \cup Int \cup BOOLEAN) = {}
  /\ Bad # NoPEM /\ Nil \notin Keys \cup {Bad, NoPEM} /\ Texts \cap BOOLEAN = {}
ASSUME DefaultAssumption ==
  \A program \in {"agent", "server"} :
    /\ DOMAIN Default[program] = FieldsOf(program)
    /\ \A f \in FieldsOf(program) : Default[program][f] \in ValuesOf(f)

AllFields == AgentFields \cup ServerFields

Member == [field : AllFields, val : Texts \cup BOOLEAN \cup {Other}]
Argument == [flag : AllFields \cup {"config", "operand"}, text : Texts]
IsEnvironment(e) == DOMAIN e \subseteq AllFields /\ \A f \in DOMAIN e : e[f] \in Texts

\* config is what CONFIG is in the environment; file holds the members of the object
\* there, none if it cannot be opened or is not JSON.  An argument is a flag with its
\* text, or an operand, at which flag.Parse ends.
ASSUME InputsAssumption ==
  \A i \in Inputs :
    /\ i.program \in {"agent", "server"} /\ i.config \in {"unset", "empty", "path"}
    /\ i.file \in Seq(Member) /\ i.args \in Seq(Argument)
    /\ IsEnvironment(i.env) /\ IsEnvironment(i.dotenv)

VARIABLES
  input,    \* the command line, the environment and the files
  phase,    \* where main is
  pos,      \* the members or arguments that have been dealt with
  config,   \* Config
  mode      \* how the service works

vars == <<input, phase, pos, config, mode>>

Fields == FieldsOf(input.program)

\* Without CONFIG, or with an empty one, InitJSONConfig reads nothing.
Members == IF input.config = "path" THEN input.file ELSE <<>>

\* godotenv.Load sets only what the environment does not have.
Environ ==
  [f \in DOMAIN input.env \cup DOMAIN input.dotenv |->
     IF f \in DOMAIN input.env THEN input.env[f] ELSE input.dotenv[f]]

Init ==
  /\ input \in Inputs
  /\ phase = "file" /\ pos = 0 /\ config = Default[input.program] /\ mode = "none"

Panic == phase' = "panicked" /\ UNCHANGED <<pos, config, mode>>
Exit == phase' = "exited" /\ UNCHANGED <<pos, config, mode>>

-----------------------------------------------------------------------------
(* The file.  json.Decoder goes through the members in their order; a value of  *)
(* the wrong type for a plain field is skipped, an error of an UnmarshalJSON    *)
(* ends the decoding.                                                           *)

\* A mutant: a bad duration is logged, as a bad key is.
UnmarshalJSONLogging(f, v) ==
  CASE v \in Texts -> [val |-> Parsed(f, v), ok |-> TRUE]
    [] OTHER -> [val |-> Bad, ok |-> f \notin Intervals \cup {"CryptoKey"}]

\* Duration.UnmarshalJSON assigns the result of the parser, 0, before it looks at the
\* error; an unreadable key is only logged.
UnmarshalJSON(f, v) ==
  CASE v \notin Texts /\ f \notin Intervals \cup {"CryptoKey"} -> [val |-> Bad, ok |-> TRUE]
    [] v \notin Texts /\ f \in Intervals \cup {"CryptoKey"} -> [val |-> Bad, ok |-> FALSE]
    [] v \in Texts /\ f \in Intervals /\ Durations[v] = Bad -> [val |-> 0, ok |-> FALSE]
    [] OTHER -> [val |-> Parsed(f, v), ok |-> TRUE]

Decoded(m) ==
  CASE m.field = "IsRestore" /\ m.val \in BOOLEAN -> [val |-> m.val, ok |-> TRUE]
    [] m.field = "IsRestore" /\ m.val \notin BOOLEAN -> [val |-> Bad, ok |-> TRUE]
    [] OTHER -> UnmarshalJSON(m.field, m.val)

\* Members that are no fields of the program are skipped.
DecodeMember ==
  /\ phase = "file" /\ pos < Len(Members)
  /\ LET m == Members[pos + 1]
         d == Decoded(m)
     IN IF m.field \notin Fields
        THEN pos' = pos + 1 /\ UNCHANGED <<phase, config, mode>>
        ELSE IF d.val = NoPEM THEN Panic
        ELSE /\ config' = IF d.val = Bad THEN config ELSE [config EXCEPT ![m.field] = d.val]
             /\ IF d.ok THEN phase' = "file" /\ pos' = pos + 1 ELSE phase' = "flags" /\ pos' = 0
             /\ UNCHANGED mode
  /\ UNCHANGED input

DecodeEnd ==
  /\ phase = "file" /\ pos = Len(Members)
  /\ phase' = "flags" /\ pos' = 0
  /\ UNCHANGED <<input, config, mode>>

-----------------------------------------------------------------------------
(* The flags *)

\* -c and -config are defined when CONFIG is not set, but what they set is read by
\* nobody: InitJSONConfig has returned before flag.Parse.
Defined(a) == a.flag \in Fields \/ (a.flag = "config" /\ input.config = "unset")

\* A mutant: the empty name of a key file is tried as well.
NoOpConfig(a) == a.flag = "config"

\* -crypto-key with an empty text is accepted and does nothing.
NoOp(a) == a.flag = "config" \/ (a.flag = "CryptoKey" /\ a.text = Empty)

\* A mutant: the functions of the flags do not return the parser's error.
RefusedUndefined(a) == ~Defined(a)

Refused(a) == ~Defined(a) \/ (~NoOp(a) /\ Parsed(a.flag, a.text) = Bad)

\* At an operand, as the second word of "-r false", flag.Parse returns; an error ends
\* the program (flag.ExitOnError).
AtEnd == pos < Len(input.args) => input.args[pos + 1].flag = "operand"

ParseFlag ==
  /\ phase = "flags" /\ ~AtEnd
  /\ LET a == input.args[pos + 1] IN
     IF Refused(a) THEN Exit
     ELSE IF ~NoOp(a) /\ Parsed(a.flag, a.text) = NoPEM THEN Panic
     ELSE /\ config' = IF NoOp(a) THEN config ELSE [config EXCEPT ![a.flag] = Parsed(a.flag, a.text)]
          /\ pos' = pos + 1
          /\ UNCHANGED <<phase, mode>>
  /\ UNCHANGED input

ParseEnd ==
  /\ phase = "flags" /\ AtEnd
  /\ phase' = "env"
  /\ UNCHANGED <<input, pos, config, mode>>

-----------------------------------------------------------------------------
(* The environment and the start *)

\* A mutant: the environment is for what has been set nowhere else.
EnvGivesMissing(f) ==
  f \in DOMAIN Environ /\ Parsed(f, Environ[f]) # Bad /\ config[f] = Default[input.program][f]

\* What a variable says that does not parse is ignored.
EnvGives(f) == f \in DOMAIN Environ /\ Parsed(f, Environ[f]) # Bad

ReadEnv ==
  /\ phase = "env"
  /\ IF EnvGives("CryptoKey") /\ KeyFiles[Environ["CryptoKey"]] = NoPEM THEN Panic
     ELSE /\ config' = [f \in Fields |-> IF EnvGives(f) THEN Parsed(f, Environ[f]) ELSE config[f]]
          /\ phase' = "start"
          /\ UNCHANGED <<pos, mode>>
  /\ UNCHANGED input

\* The service is initialised: whether its address can be listened on is found out after.
Run(m) == phase' = "running" /\ mode' = m /\ UNCHANGED <<pos, config>>

\* StartSending makes its two tickers; time.NewTicker panics at 0 and below.
StartAgent ==
  /\ phase = "start" /\ input.program = "agent"
  /\ IF config["PollInterval"] > 0 /\ config["ReportInterval"] > 0 THEN Run("tickers") ELSE Panic
  /\ UNCHANGED input

\* A mutant: the interval is looked at before the name of the file.
BackupModeByInterval ==
  IF config["StoreInterval"] = 0 THEN "sync"
  ELSE IF config["StoreFile"] = Empty THEN "off" ELSE "ticker"

BackupMode ==
  IF config["StoreFile"] = Empty THEN "off"
  ELSE IF config["StoreInterval"] = 0 THEN "sync" ELSE "ticker"

\* InitService; without the database main ends in log.Fatal.
StartServer ==
  /\ phase = "start" /\ input.program = "server"
  /\ IF config["DataBaseDSN"] # Empty THEN Run("sql") \/ Exit
     ELSE IF BackupMode = "ticker" /\ config["StoreInterval"] < 0 THEN Panic
     ELSE Run(BackupMode)
  /\ UNCHANGED input

\* The end on a signal.  Only the ticker and the database have set the destructor that
\* main of the server calls.
Stop ==
  /\ phase = "running"
  /\ IF mode \in {"sync", "off"} THEN phase' = "panicked" ELSE phase' = "ended"
  /\ UNCHANGED <<input, pos, config, mode>>

Next ==
  \/ DecodeMember \/ DecodeEnd \/ ParseFlag \/ ParseEnd \/ ReadEnv
  \/ StartAgent \/ StartServer \/ Stop

Spec == Init /\ [][Next]_vars

\* main is one goroutine until the service is there, and a runnable one gets its turn.
FairSpec == Spec /\ WF_vars(DecodeMember \/ DecodeEnd \/ ParseFlag \/ ParseEnd \/ ReadEnv
                              \/ StartAgent \/ StartServer)

-----------------------------------------------------------------------------
(* Properties *)

Latest(S) == CHOOSE i \in S : \A j \in S : j <= i

\* The first n members, up to one that ends the decoding, that set f.
Spoils(m) ==
  /\ m.field \in Fields \cap (Intervals \cup {"CryptoKey"})
  /\ m.val \in Texts => m.field \in Intervals /\ Durations[m.val] = Bad

Sets(m, f) ==
  /\ m.field = f
  /\ IF f = "IsRestore" THEN m.val \in BOOLEAN ELSE m.val \in Texts
  /\ f = "CryptoKey" => KeyFiles[m.val] \in Keys

FileGives(f, n) ==
  {i \in 1..n : Sets(Members[i], f) /\ \A j \in 1..(i - 1) : ~Spoils(Members[j])}

FileValue(m) ==
  IF Spoils(m) THEN 0 ELSE IF m.field = "IsRestore" THEN m.val ELSE Parsed(m.field, m.val)

FromFile(f, n) ==
  IF FileGives(f, n) = {} THEN Default[input.program][f] ELSE FileValue(Members[Latest(FileGives(f, n))])

\* The first n arguments, up to an operand, that set f.
FlagGives(f, n) ==
  {i \in 1..n : /\ input.args[i].flag = f
                /\ f = "CryptoKey" => input.args[i].text # Empty
                /\ \A j \in 1..i : input.args[j].flag # "operand"}

FromFlags(f, n) ==
  IF FlagGives(f, n) = {} THEN FromFile(f, Len(Members))
  ELSE Parsed(f, input.args[Latest(FlagGives(f, n))].text)

Expected(f) ==
  IF f \in DOMAIN Environ /\ Parsed(f, Environ[f]) # Bad THEN Parsed(f, Environ[f])
  ELSE FromFlags(f, Len(input.args))

\* Every variable has its type: what does not parse never gets into the
\* configuration (the functions of common.go).
TypeOK ==
  /\ input \in Inputs
  /\ phase \in {"file", "flags", "env", "start", "running", "exited", "panicked", "ended"}
  /\ pos \in Nat
  /\ DOMAIN config = Fields /\ \A f \in Fields : config[f] \in ValuesOf(f)
  /\ mode \in {"none", "tickers", "sql", "off", "sync", "ticker"}

\* The inductive invariant: in every phase config is what the layers gone through so
\* far, and the part of the present one, give.
Inv ==
  /\ phase = "file" =>
       /\ pos <= Len(Members) /\ \A j \in 1..pos : ~Spoils(Members[j])
       /\ \A f \in Fields : config[f] = FromFile(f, pos)
  /\ phase = "flags" =>
       /\ pos <= Len(input.args) /\ \A j \in 1..pos : input.args[j].flag # "operand"
       /\ \A f \in Fields : config[f] = FromFlags(f, pos)
  /\ phase = "env" => \A f \in Fields : config[f] = FromFlags(f, Len(input.args))
  /\ mode # "none" => phase \in {"running", "ended", "panicked"}

\* A service works with what the environment says, else the last flag before an
\* operand, else the last member of the file before one that ends the decoding, else
\* the default; a bad variable is as if not there, a bad duration of the file is 0.
Precedence == phase \in {"start", "running", "ended"} => \A f \in Fields : config[f] = Expected(f)

\* A backup needs the name of a file, and there is none beside a database: whichever
\* layer has set or cleared what, at the end InitService agrees with all of them.
BackupHasAFile ==
  mode \in {"sync", "ticker"} =>
    /\ Expected("StoreFile") # Empty /\ Expected("DataBaseDSN") = Empty
    /\ mode = "sync" <=> Expected("StoreInterval") = 0

\* Nothing is wrong with what was given: no flag that is refused, no file that is no
\* PEM where a key is named, intervals that a ticker takes.
NoKeyPanics ==
  /\ \A i \in DOMAIN Members :
       Members[i].field = "CryptoKey" /\ Members[i].val \in Texts => KeyFiles[Members[i].val] # NoPEM
  /\ \A i \in DOMAIN input.args :
       input.args[i].flag = "CryptoKey" => KeyFiles[input.args[i].text] # NoPEM
  /\ "CryptoKey" \in DOMAIN Environ => KeyFiles[Environ["CryptoKey"]] # NoPEM

Fine ==
  /\ NoKeyPanics
  /\ \A i \in DOMAIN input.args :
       LET a == input.args[i] IN
       \/ a.flag = "operand"
       \/ a.flag = "config" /\ input.config = "unset"
       \/ a.flag = "CryptoKey" /\ a.text = Empty
       \/ a.flag \in Fields /\ Parsed(a.flag, a.text) # Bad
  /\ input.program = "agent" => Expected("PollInterval") > 0 /\ Expected("ReportInterval") > 0
  /\ input.program = "server" => Expected("StoreInterval") >= 0 /\ Expected("DataBaseDSN") = Empty

\* A start with nothing wrong comes to an initialised service, whatever is in the file and
\* the environment that is skipped, ignored or ends the decoding.
GoodInputStarts == phase = "file" /\ Fine ~> phase = "running"
=============================================================================
