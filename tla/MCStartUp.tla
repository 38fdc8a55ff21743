------------------------------ MODULE MCStartUp ------------------------------
(* Values for model-checking StartUp: texts that parse in one way, in several or *)
(* not at all, files that end in every way, all command lines of up to two of    *)
(* the arguments, and environments that overlap with them.                       *)
EXTENDS StartUp

CONSTANTS empty, word, zero, second, minus, no, key1, key2, pem

MCTexts == {empty, word, zero, second, minus, no, key1, key2, pem}

MCDurations ==
  [t \in MCTexts |-> CASE t = zero -> 0 [] t = second -> 1 [] t = minus -> -1 [] OTHER -> Bad]

\* strconv.ParseBool knows "0" too.
MCBools == [t \in MCTexts |-> IF t \in {no, zero} THEN FALSE ELSE Bad]

MCKeyFiles ==
  [t \in MCTexts |-> IF t \in {key1, key2} THEN t ELSE IF t = pem THEN NoPEM ELSE Bad]

MCDefault ==
  [agent |-> [Address |-> word, PollInterval |-> 1, ReportInterval |-> 2, CryptoKey |-> Nil,
              Key |-> empty],
   server |-> [Address |-> word, StoreInterval |-> 300, StoreFile |-> word, IsRestore |-> TRUE,
               CryptoKey |-> Nil, DataBaseDSN |-> empty, Key |-> empty, TrustedSubnet |-> empty]]

Mem(f, v) == [field |-> f, val |-> v]
Arg(f, t) == [flag |-> f, text |-> t]

Files(program) ==
  IF program = "agent"
  THEN {<<>>, <<Mem("CryptoKey", pem)>>,
        <<Mem("Address", second), Mem("ReportInterval", word), Mem("Key", word)>>,
        <<Mem("CryptoKey", key1), Mem("PollInterval", Other), Mem("Key", word)>>,
        <<Mem("CryptoKey", word), Mem("Key", TRUE), Mem("PollInterval", zero), Mem("PollInterval", second)>>}
  ELSE {<<Mem("StoreInterval", zero), Mem("StoreFile", empty)>>,
        <<Mem("IsRestore", FALSE), Mem("IsRestore", word), Mem("PollInterval", word)>>,
        <<Mem("StoreFile", second), Mem("StoreInterval", word), Mem("StoreFile", empty)>>,
        <<Mem("CryptoKey", Other), Mem("StoreFile", empty)>>}

Args(program) ==
  {Arg("config", word), Arg("operand", no), Arg("CryptoKey", key2), Arg("CryptoKey", empty)} \cup
  IF program = "agent"
  THEN {Arg("PollInterval", second), Arg("ReportInterval", zero), Arg("ReportInterval", word),
        Arg("CryptoKey", pem), Arg("Key", word)}
  ELSE {Arg("StoreInterval", zero), Arg("StoreInterval", minus), Arg("StoreFile", word),
        Arg("StoreFile", empty), Arg("IsRestore", no), Arg("PollInterval", second)}

Environments(program) ==
  IF program = "agent"
  THEN {<<>>, [PollInterval |-> zero], [PollInterval |-> word, Key |-> empty, CryptoKey |-> key1],
        [ReportInterval |-> second, CryptoKey |-> word], [CryptoKey |-> pem]}
  ELSE {<<>>, [StoreInterval |-> second], [StoreFile |-> empty, IsRestore |-> no],
        [DataBaseDSN |-> word, StoreInterval |-> word], [StoreFile |-> word, StoreInterval |-> zero]}

Lines(S) == {<<>>} \cup {<<a>> : a \in S} \cup {<<a, b>> : a, b \in S}

Started(program) ==
  [program : {program}, config : {"path"}, file : Files(program), args : Lines(Args(program)),
   env : Environments(program), dotenv : Environments(program)]
    \cup [program : {program}, config : {"unset", "empty"}, file : {<<>>},
         args : Lines(Args(program)), env : Environments(program), dotenv : {<<>>}]

MCInputs == Started("agent") \cup Started("server")
=============================================================================
