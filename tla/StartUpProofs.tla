---------------------------- MODULE StartUpProofs ----------------------------
(***************************************************************************)
(* The layers of the configuration for files, command lines and            *)
(* environments of any length: what the programs work with is what the     *)
(* reference definition Expected says, and a start with nothing wrong does *)
(* not fail on its way to the service.                                     *)
(***************************************************************************)
EXTENDS StartUp, TLAPS

\* The names of the fields are different, and of three kinds.
Plain == {"Address", "Key", "StoreFile", "DataBaseDSN", "TrustedSubnet"}

LEMMA FieldKinds ==
  /\ AllFields = Intervals \cup {"IsRestore"} \cup {"CryptoKey"} \cup Plain
  /\ \A f \in Intervals : f \notin Plain \cup {"IsRestore", "CryptoKey"}
  /\ \A f \in Plain : f \notin Intervals \cup {"IsRestore", "CryptoKey"}
  /\ "IsRestore" \notin Intervals /\ "CryptoKey" \notin Intervals
BY DEF AllFields, AgentFields, ServerFields, Intervals, Plain

\* What a text is for a field: an error, a file that is no PEM, or a value of the field.
LEMMA ParsedType ==
  ASSUME NEW f \in AllFields, NEW t \in Texts, Parsed(f, t) # Bad
  PROVE  \/ Parsed(f, t) = NoPEM /\ f = "CryptoKey"
         \/ Parsed(f, t) \in ValuesOf(f)
<1>1. CASE f \in Intervals
  BY <1>1, TextsAssumption, FieldKinds DEF Parsed, ValuesOf
<1>2. CASE f = "IsRestore"
  BY <1>2, TextsAssumption, FieldKinds DEF Parsed, ValuesOf
<1>3. CASE f = "CryptoKey"
  BY <1>3, TextsAssumption, FieldKinds DEF Parsed, ValuesOf
<1>4. CASE f \in Plain
  BY <1>4, FieldKinds DEF Parsed, ValuesOf
<1> QED BY <1>1, <1>2, <1>3, <1>4, FieldKinds

\* The errors are no values.
LEMMA NoValues ==
  ASSUME NEW f \in AllFields
  PROVE  Bad \notin ValuesOf(f) /\ NoPEM \notin ValuesOf(f)
BY OddValuesAssumption, FieldKinds DEF ValuesOf

\* json.Decoder, member by member, does what the declarative definitions say.
LEMMA DecodedMember ==
  ASSUME NEW m \in Member, m.field \in Fields, Decoded(m).val # NoPEM
  PROVE  /\ Decoded(m).ok \in BOOLEAN
         /\ Decoded(m).ok <=> ~Spoils(m)
         /\ Decoded(m).val # Bad <=> Sets(m, m.field)
         /\ Decoded(m).val # Bad => /\ Decoded(m).val = FileValue(m)
                                    /\ FileValue(m) \in ValuesOf(m.field)
<1>0. m.field \in AllFields /\ m.val \in Texts \cup BOOLEAN \cup {Other}
  BY DEF Member
<1>1. CASE m.field \in Intervals
  <2>1. CASE m.val \notin Texts
    <3>1. m.field \in Intervals \cup {"CryptoKey"} /\ m.field # "IsRestore"
      BY <1>1, FieldKinds
    <3>2. UnmarshalJSON(m.field, m.val) = [val |-> Bad, ok |-> FALSE]
      BY <2>1, <3>1 DEF UnmarshalJSON
    <3>3. Decoded(m) = [val |-> Bad, ok |-> FALSE]
      BY <3>1, <3>2 DEF Decoded
    <3> QED BY <1>1, <2>1, <3>1, <3>3, FieldKinds DEF Spoils, Sets
  <2>2. CASE m.val \in Texts /\ Durations[m.val] = Bad
    <3>1. Decoded(m) = [val |-> 0, ok |-> FALSE]
      BY <1>1, <2>2, FieldKinds DEF Decoded, UnmarshalJSON
    <3>2. 0 # Bad
      BY OddValuesAssumption
    <3> QED BY <1>1, <2>2, <3>1, <3>2, FieldKinds DEF Spoils, Sets, FileValue, ValuesOf
  <2>3. CASE m.val \in Texts /\ Durations[m.val] # Bad
    <3>1. Decoded(m) = [val |-> Durations[m.val], ok |-> TRUE]
      BY <1>1, <2>3, FieldKinds DEF Decoded, UnmarshalJSON, Parsed
    <3> QED BY <1>1, <2>3, <3>1, FieldKinds, TextsAssumption
            DEF Spoils, Sets, FileValue, ValuesOf, Parsed
  <2> QED BY <2>1, <2>2, <2>3
<1>2. CASE m.field = "IsRestore"
  <2>1. CASE m.val \in BOOLEAN
    BY <1>2, <2>1, FieldKinds, OddValuesAssumption
       DEF Decoded, Spoils, Sets, FileValue, ValuesOf
  <2>2. CASE m.val \notin BOOLEAN
    BY <1>2, <2>2, FieldKinds DEF Decoded, Spoils, Sets
  <2> QED BY <2>1, <2>2
<1>3. CASE m.field = "CryptoKey"
  <2>1. CASE m.val \notin Texts
    BY <1>3, <2>1, FieldKinds DEF Decoded, UnmarshalJSON, Spoils, Sets
  <2>2. CASE m.val \in Texts
    <3>1. Decoded(m) = [val |-> KeyFiles[m.val], ok |-> TRUE]
      BY <1>3, <2>2, FieldKinds DEF Decoded, UnmarshalJSON, Parsed
    <3>2. KeyFiles[m.val] \in Keys \cup {Bad}
      BY <2>2, <3>1, TextsAssumption
    <3>3. ~Spoils(m)
      BY <1>3, <2>2, FieldKinds DEF Spoils
    <3> QED BY <1>3, <2>2, <3>1, <3>2, <3>3, FieldKinds, OddValuesAssumption
            DEF Sets, FileValue, ValuesOf, Parsed
  <2> QED BY <2>1, <2>2
<1>4. CASE m.field \in Plain
  <2>1. ~Spoils(m)
    BY <1>4, FieldKinds DEF Spoils
  <2>2. CASE m.val \notin Texts
    BY <1>4, <2>1, <2>2, FieldKinds DEF Decoded, UnmarshalJSON, Sets
  <2>3. CASE m.val \in Texts
    <3>1. Decoded(m) = [val |-> m.val, ok |-> TRUE]
      BY <1>4, <2>3, FieldKinds DEF Decoded, UnmarshalJSON, Parsed
    <3> QED BY <1>4, <2>1, <2>3, <3>1, FieldKinds, OddValuesAssumption
            DEF Sets, FileValue, ValuesOf, Parsed
  <2> QED BY <2>2, <2>3
<1> QED BY <1>0, <1>1, <1>2, <1>3, <1>4, FieldKinds

-----------------------------------------------------------------------------
(* The prefixes *)

\* The last of some positions up to n + 1 is n + 1 when it is among them.
LEMMA LatestIsLast ==
  ASSUME NEW n \in Nat, NEW S \in SUBSET (1..(n + 1)), n + 1 \in S
  PROVE  Latest(S) = n + 1
<1>1. \A j \in S : j <= n + 1
  OBVIOUS
<1>2. \A i \in S : (\A j \in S : j <= i) => i = n + 1
  OBVIOUS
<1> QED BY <1>1, <1>2 DEF Latest

\* One member more.
LEMMA FromFileStep ==
  ASSUME NEW f \in Fields, NEW n \in Nat, n < Len(Members), Members \in Seq(Member),
         \A j \in 1..n : ~Spoils(Members[j])
  PROVE  FromFile(f, n + 1) = IF Sets(Members[n + 1], f) THEN FileValue(Members[n + 1])
                              ELSE FromFile(f, n)
<1> DEFINE m == Members[n + 1]
<1>1. 1..(n + 1) = 1..n \cup {n + 1} /\ n + 1 \notin 1..n
  OBVIOUS
<1>2. \A i \in 1..(n + 1) : 1..(i - 1) \subseteq 1..n
  OBVIOUS
<1>3. CASE Sets(m, f)
  <2>1. n + 1 \in FileGives(f, n + 1) /\ FileGives(f, n + 1) \in SUBSET (1..(n + 1))
    BY <1>1, <1>2, <1>3 DEF FileGives
  <2> QED BY <1>3, <2>1, LatestIsLast DEF FromFile
<1>4. CASE ~Sets(m, f)
  <2>1. FileGives(f, n + 1) = FileGives(f, n)
    BY <1>1, <1>2, <1>4 DEF FileGives
  <2> QED BY <1>4, <2>1 DEF FromFile
<1> QED BY <1>3, <1>4

\* After a member that ends the decoding the rest does not count.
LEMMA FromFileSpoilt ==
  ASSUME NEW f, NEW n \in Nat, n < Len(Members), Members \in Seq(Member), Spoils(Members[n + 1])
  PROVE  FromFile(f, Len(Members)) = FromFile(f, n + 1)
<1>1. \A i \in 1..Len(Members) : i \notin 1..(n + 1) => n + 1 \in 1..(i - 1)
  OBVIOUS
<1>2. 1..(n + 1) \subseteq 1..Len(Members)
  OBVIOUS
<1>3. FileGives(f, Len(Members)) = FileGives(f, n + 1)
  BY <1>1, <1>2 DEF FileGives
<1> QED BY <1>3 DEF FromFile

LEMMA FromFileNone ==
  ASSUME NEW f
  PROVE  FromFile(f, 0) = Default[input.program][f] /\ FromFlags(f, 0) = FromFile(f, Len(Members))
BY DEF FromFile, FileGives, FromFlags, FlagGives

\* One argument more.
LEMMA FromFlagsStep ==
  ASSUME NEW f \in Fields, NEW n \in Nat, n < Len(input.args), input.args \in Seq(Argument),
         \A j \in 1..(n + 1) : input.args[j].flag # "operand"
  PROVE  FromFlags(f, n + 1) =
           IF input.args[n + 1].flag = f /\ (f = "CryptoKey" => input.args[n + 1].text # Empty)
           THEN Parsed(f, input.args[n + 1].text) ELSE FromFlags(f, n)
<1> DEFINE a == input.args[n + 1]
<1>1. 1..(n + 1) = 1..n \cup {n + 1} /\ n + 1 \notin 1..n
  OBVIOUS
<1>2. \A i \in 1..(n + 1) : 1..i \subseteq 1..(n + 1)
  OBVIOUS
<1>3. CASE a.flag = f /\ (f = "CryptoKey" => a.text # Empty)
  <2>1. n + 1 \in FlagGives(f, n + 1) /\ FlagGives(f, n + 1) \in SUBSET (1..(n + 1))
    BY <1>1, <1>2, <1>3 DEF FlagGives
  <2> QED BY <1>3, <2>1, LatestIsLast DEF FromFlags
<1>4. CASE ~(a.flag = f /\ (f = "CryptoKey" => a.text # Empty))
  <2>1. FlagGives(f, n + 1) = FlagGives(f, n)
    BY <1>1, <1>2, <1>4 DEF FlagGives
  <2> QED BY <1>4, <2>1 DEF FromFlags
<1> QED BY <1>3, <1>4

\* After an operand the rest does not count.
LEMMA FromFlagsOperand ==
  ASSUME NEW f, NEW n \in Nat, n < Len(input.args), input.args \in Seq(Argument),
         input.args[n + 1].flag = "operand"
  PROVE  FromFlags(f, Len(input.args)) = FromFlags(f, n)
<1>1. \A i \in 1..Len(input.args) : i \notin 1..n => n + 1 \in 1..i
  OBVIOUS
<1>2. 1..n \subseteq 1..Len(input.args)
  OBVIOUS
<1>3. FlagGives(f, Len(input.args)) = FlagGives(f, n)
  BY <1>1, <1>2 DEF FlagGives
<1> QED BY <1>3 DEF FromFlags

-----------------------------------------------------------------------------
(* Invariance *)

LEMMA InputType ==
  ASSUME TypeOK
  PROVE  /\ Members \in Seq(Member) /\ input.args \in Seq(Argument)
         /\ Fields \subseteq AllFields
         /\ \A f \in DOMAIN Environ : f \in AllFields /\ Environ[f] \in Texts
<1>1. Members \in Seq(Member) /\ input.args \in Seq(Argument)
  BY InputsAssumption DEF TypeOK, Members
<1>2. Fields \subseteq AllFields
  BY DEF Fields, FieldsOf, AllFields
<1>3. IsEnvironment(input.env) /\ IsEnvironment(input.dotenv)
  BY InputsAssumption DEF TypeOK
<1>4. DOMAIN Environ = DOMAIN input.env \cup DOMAIN input.dotenv
  BY DEF Environ
<1>5. ASSUME NEW f \in DOMAIN Environ
      PROVE  f \in AllFields /\ Environ[f] \in Texts
  BY <1>3, <1>4, <1>5 DEF IsEnvironment, Environ
<1> QED BY <1>1, <1>2, <1>5

LEMMA Initially == Init => TypeOK /\ Inv /\ Precedence /\ BackupHasAFile
<1> SUFFICES ASSUME Init PROVE TypeOK /\ Inv /\ Precedence /\ BackupHasAFile
  OBVIOUS
<1>1. input.program \in {"agent", "server"} /\ Len(Members) \in Nat
  BY InputsAssumption DEF Init, Members
<1>2. TypeOK
  BY <1>1, DefaultAssumption DEF Init, TypeOK, Fields
<1>3. Inv
  BY <1>1, FromFileNone DEF Init, Inv
<1> QED BY <1>2, <1>3 DEF Init, Precedence, BackupHasAFile

\* Expected is about the input, which does not change.
LEMMA InputStays ==
  ASSUME input' = input
  PROVE  /\ Fields' = Fields /\ Members' = Members
         /\ \A f : Expected(f)' = Expected(f)
         /\ \A f, n : FromFile(f, n)' = FromFile(f, n) /\ FromFlags(f, n)' = FromFlags(f, n)
<1>1. Fields' = Fields /\ Members' = Members /\ Environ' = Environ
  BY DEF Fields, Members, Environ
<1>2. \A m, f : Spoils(m)' = Spoils(m) /\ Sets(m, f)' = Sets(m, f)
  BY <1>1 DEF Spoils, Sets
<1>3. \A f, n : FileGives(f, n)' = FileGives(f, n) /\ FlagGives(f, n)' = FlagGives(f, n)
  BY <1>1, <1>2 DEF FileGives, FlagGives
<1>4. \A m : FileValue(m)' = FileValue(m)
  BY <1>2 DEF FileValue
<1>5. \A f, n : FromFile(f, n)' = FromFile(f, n)
  BY <1>1, <1>3, <1>4 DEF FromFile
<1>6. \A f, n : FromFlags(f, n)' = FromFlags(f, n)
  BY <1>1, <1>3, <1>5 DEF FromFlags
<1> QED BY <1>1, <1>5, <1>6 DEF Expected

Safe == TypeOK /\ Inv /\ Precedence /\ BackupHasAFile

LEMMA FileStep ==
  ASSUME Safe, DecodeMember \/ DecodeEnd
  PROVE  Safe'
<1>0. /\ input' = input /\ mode' = mode /\ mode = "none" /\ phase = "file" /\ pos \in Nat
      /\ Members \in Seq(Member) /\ Fields \subseteq AllFields /\ Len(Members) \in Nat
  <2>1. phase = "file"
    BY DEF DecodeMember, DecodeEnd
  <2>2. mode = "none"
    BY <2>1 DEF Safe, Inv
  <2> QED BY <2>1, <2>2, InputType DEF Safe, TypeOK, DecodeMember, DecodeEnd, Panic
<1>1. BackupHasAFile'
  BY <1>0 DEF BackupHasAFile
<1>2. CASE DecodeEnd
  <2>1. \A f \in Fields : config'[f] = FromFlags(f, 0)
    BY <1>0, <1>2, FromFileNone DEF DecodeEnd, Safe, Inv
  <2> QED BY <1>0, <1>1, <1>2, <2>1, InputStays DEF DecodeEnd, Safe, TypeOK, Inv, Precedence
<1>3. CASE DecodeMember
  <2> DEFINE m == Members[pos + 1]
             d == Decoded(m)
  <2>0. /\ pos + 1 \in 1..Len(Members) /\ m \in Member /\ pos < Len(Members) /\ pos + 1 \in Nat
        /\ \A j \in 1..pos : ~Spoils(Members[j])
        /\ \A f \in Fields : config[f] = FromFile(f, pos)
        /\ DOMAIN config = Fields
    BY <1>0, <1>3 DEF DecodeMember, Safe, Inv, TypeOK
  <2>1. CASE m.field \notin Fields
    <3>1. ~Spoils(m) /\ \A f \in Fields : ~Sets(m, f)
      BY <2>1 DEF Spoils, Sets
    <3>2. \A f \in Fields : config'[f] = FromFile(f, pos + 1)
      BY <1>0, <1>3, <2>0, <2>1, <3>1, FromFileStep DEF DecodeMember
    <3>3. \A j \in 1..(pos + 1) : ~Spoils(Members[j])
      BY <1>0, <2>0, <3>1
    <3>4. phase' = "file" /\ pos' = pos + 1 /\ config' = config
      BY <1>0, <1>3, <2>1 DEF DecodeMember
    <3>5. TypeOK'
      BY <1>0, <3>4, InputStays DEF Safe, TypeOK
    <3>6. Inv'
      BY <1>0, <2>0, <3>2, <3>3, <3>4, InputStays DEF Inv, Spoils
    <3> QED BY <1>1, <3>4, <3>5, <3>6 DEF Safe, Precedence
  <2>2. CASE m.field \in Fields /\ d.val = NoPEM
    <3>1. phase' = "panicked" /\ UNCHANGED <<pos, config, mode>>
      BY <1>3, <2>2 DEF DecodeMember, Panic
    <3> QED BY <1>0, <1>1, <3>1, InputStays DEF Safe, TypeOK, Inv, Precedence
  <2>3. CASE m.field \in Fields /\ d.val # NoPEM
    <3>1. /\ config' = IF d.val = Bad THEN config ELSE [config EXCEPT ![m.field] = d.val]
          /\ IF d.ok THEN phase' = "file" /\ pos' = pos + 1 ELSE phase' = "flags" /\ pos' = 0
      BY <1>3, <2>3 DEF DecodeMember
    <3>2. /\ d.ok \in BOOLEAN /\ (d.ok <=> ~Spoils(m)) /\ (d.val # Bad <=> Sets(m, m.field))
          /\ d.val # Bad => d.val = FileValue(m) /\ d.val \in ValuesOf(m.field)
      BY <2>0, <2>3, DecodedMember
    <3>3. \A f \in Fields : f # m.field => ~Sets(m, f)
      BY DEF Sets
    <3>4. DOMAIN config' = Fields /\ \A f \in Fields : config'[f] \in ValuesOf(f)
      BY <2>0, <3>1, <3>2 DEF Safe, TypeOK
    <3>5. \A f \in Fields : config'[f] = FromFile(f, pos + 1)
      <4> TAKE f \in Fields
      <4>1. FromFile(f, pos + 1) = IF Sets(m, f) THEN FileValue(m) ELSE FromFile(f, pos)
        BY <1>0, <2>0, FromFileStep
      <4>2. CASE f = m.field
        BY <2>0, <2>3, <3>1, <3>2, <4>1, <4>2
      <4>3. CASE f # m.field
        BY <2>0, <3>1, <3>3, <4>1, <4>3
      <4> QED BY <4>2, <4>3
    <3>6. phase' \in {"file", "flags"} /\ pos' \in Nat
      BY <2>0, <3>1, <3>2
    <3>7. TypeOK'
      BY <1>0, <3>4, <3>6, InputStays DEF Safe, TypeOK
    <3>8. CASE ~Spoils(m)
      <4>1. \A j \in 1..(pos + 1) : ~Spoils(Members[j])
        BY <1>0, <2>0, <3>8
      <4>2. Inv'
        BY <1>0, <2>0, <3>1, <3>2, <3>5, <3>8, <4>1, InputStays DEF Inv, Spoils
      <4> QED BY <1>1, <3>6, <3>7, <4>2 DEF Safe, Precedence
    <3>9. CASE Spoils(m)
      <4>1. \A f \in Fields : config'[f] = FromFlags(f, 0)
        BY <1>0, <2>0, <3>5, <3>9, FromFileSpoilt, FromFileNone
      <4>2. Len(input.args) \in Nat
        BY InputType DEF Safe
      <4>3. Inv'
        BY <1>0, <3>1, <3>2, <3>9, <4>1, <4>2, InputStays DEF Inv
      <4> QED BY <1>1, <3>6, <3>7, <4>3 DEF Safe, Precedence
    <3> QED BY <3>8, <3>9
  <2> QED BY <2>1, <2>2, <2>3
<1> QED BY <1>2, <1>3

LEMMA FlagStep ==
  ASSUME Safe, ParseFlag \/ ParseEnd
  PROVE  Safe'
<1>0. /\ input' = input /\ mode' = mode /\ mode = "none" /\ phase = "flags" /\ pos \in Nat
      /\ input.args \in Seq(Argument) /\ Fields \subseteq AllFields /\ Len(input.args) \in Nat
      /\ pos <= Len(input.args) /\ \A j \in 1..pos : input.args[j].flag # "operand"
      /\ \A f \in Fields : config[f] = FromFlags(f, pos)
      /\ DOMAIN config = Fields
  <2>1. phase = "flags" /\ input' = input
    BY DEF ParseFlag, ParseEnd
  <2>2. mode = "none"
    BY <2>1 DEF Safe, Inv
  <2> QED BY <2>1, <2>2, InputType DEF Safe, TypeOK, Inv, ParseFlag, ParseEnd, Panic, Exit
<1>1. BackupHasAFile'
  BY <1>0 DEF BackupHasAFile
<1>2. CASE ParseEnd
  <2>2. \A f \in Fields : config[f] = FromFlags(f, Len(input.args))
    <3>1. CASE pos = Len(input.args)
      BY <1>0, <3>1
    <3>2. CASE pos < Len(input.args)
      BY <1>0, <1>2, <3>2, FromFlagsOperand DEF ParseEnd, AtEnd
    <3> QED BY <1>0, <3>1, <3>2
  <2> QED BY <1>0, <1>1, <1>2, <2>2, InputStays DEF ParseEnd, Safe, TypeOK, Inv, Precedence
<1>3. CASE ParseFlag
  <2> DEFINE a == input.args[pos + 1]
  <2>0. pos < Len(input.args) /\ a.flag # "operand" /\ a \in Argument
    BY <1>0, <1>3 DEF ParseFlag, AtEnd
  <2>1. CASE phase' # "flags"
    <3>1. phase' \in {"exited", "panicked"} /\ UNCHANGED <<pos, config, mode>>
      BY <1>0, <1>3, <2>1 DEF ParseFlag, Exit, Panic
    <3> QED BY <1>0, <1>1, <3>1, InputStays DEF Safe, TypeOK, Inv, Precedence
  <2>2. CASE phase' = "flags"
    <3>1. /\ ~Refused(a) /\ pos' = pos + 1
          /\ NoOp(a) \/ Parsed(a.flag, a.text) # NoPEM
          /\ config' = IF NoOp(a) THEN config ELSE [config EXCEPT ![a.flag] = Parsed(a.flag, a.text)]
      BY <1>3, <2>2 DEF ParseFlag, Exit, Panic
    <3>2. ~NoOp(a) => /\ a.flag \in Fields /\ a.flag \in AllFields /\ a.text \in Texts
                      /\ Parsed(a.flag, a.text) # Bad
      BY <1>0, <2>0, <3>1 DEF Refused, Defined, NoOp, Argument
    <3>3. ~NoOp(a) => Parsed(a.flag, a.text) \in ValuesOf(a.flag)
      BY <3>1, <3>2, ParsedType
    <3>4. DOMAIN config' = Fields /\ \A f \in Fields : config'[f] \in ValuesOf(f)
      BY <1>0, <3>1, <3>2, <3>3 DEF Safe, TypeOK
    <3>5. \A j \in 1..(pos + 1) : input.args[j].flag # "operand"
      BY <1>0, <2>0
    <3>6. "config" \notin AllFields
      BY DEF AllFields, AgentFields, ServerFields
    <3>7. \A f \in Fields : config'[f] = FromFlags(f, pos + 1)
      <4> TAKE f \in Fields
      <4>1. FromFlags(f, pos + 1) =
              IF a.flag = f /\ (f = "CryptoKey" => a.text # Empty)
              THEN Parsed(f, a.text) ELSE FromFlags(f, pos)
        BY <1>0, <2>0, <3>5, FromFlagsStep
      <4>2. CASE NoOp(a)
        BY <1>0, <3>1, <3>6, <4>1, <4>2 DEF NoOp
      <4>3. CASE ~NoOp(a)
        BY <1>0, <3>1, <3>2, <4>1, <4>3 DEF NoOp
      <4> QED BY <4>2, <4>3
    <3>8. TypeOK'
      BY <1>0, <2>2, <3>1, <3>4, InputStays DEF Safe, TypeOK
    <3>9. Inv'
      BY <1>0, <2>0, <2>2, <3>1, <3>5, <3>7, InputStays DEF Inv
    <3> QED BY <1>1, <2>2, <3>8, <3>9 DEF Safe, Precedence
  <2> QED BY <2>1, <2>2
<1> QED BY <1>2, <1>3

LEMMA EnvStep ==
  ASSUME Safe, ReadEnv
  PROVE  Safe'
<1>0. /\ input' = input /\ mode' = mode /\ phase = "env" /\ mode = "none"
      /\ \A f \in Fields : config[f] = FromFlags(f, Len(input.args))
  <2>1. phase = "env" /\ input' = input /\ mode' = mode
    BY DEF ReadEnv, Panic
  <2> QED BY <2>1 DEF Safe, Inv
<1>1. BackupHasAFile'
  BY <1>0 DEF BackupHasAFile
<1>2. CASE phase' = "panicked"
  <2>1. UNCHANGED <<pos, config>>
    BY <1>2 DEF ReadEnv, Panic
  <2> QED BY <1>0, <1>1, <1>2, <2>1, InputStays DEF Safe, TypeOK, Inv, Precedence
<1>3. CASE phase' # "panicked"
  <2>1. /\ ~(EnvGives("CryptoKey") /\ KeyFiles[Environ["CryptoKey"]] = NoPEM)
        /\ config' = [f \in Fields |-> IF EnvGives(f) THEN Parsed(f, Environ[f]) ELSE config[f]]
        /\ phase' = "start" /\ pos' = pos
    BY <1>3 DEF ReadEnv, Panic
  <2>2. ASSUME NEW f \in Fields, EnvGives(f)
        PROVE  Parsed(f, Environ[f]) \in ValuesOf(f)
    <3>1. f \in AllFields /\ Environ[f] \in Texts /\ Parsed(f, Environ[f]) # Bad
      BY <2>2, InputType DEF Safe, EnvGives
    <3>2. f = "CryptoKey" => Parsed(f, Environ[f]) # NoPEM
      BY <2>1, <2>2, FieldKinds DEF Parsed
    <3> QED BY <3>1, <3>2, ParsedType
  <2>3. TypeOK'
    BY <1>0, <2>1, <2>2, InputStays DEF Safe, TypeOK
  <2>4. \A f \in Fields : config'[f] = Expected(f)
    BY <1>0, <2>1 DEF EnvGives, Expected
  <2> QED BY <1>0, <1>1, <2>1, <2>3, <2>4, InputStays DEF Safe, Inv, Precedence
<1> QED BY <1>2, <1>3

LEMMA StartStep ==
  ASSUME Safe, StartAgent \/ StartServer \/ Stop
  PROVE  Safe'
<1>0. /\ input' = input /\ pos' = pos /\ config' = config /\ phase \in {"start", "running"}
      /\ phase' \in {"running", "exited", "panicked", "ended"}
      /\ \A f \in Fields : config[f] = Expected(f)
      /\ mode' = mode \/ mode' \in {"tickers", "sql", "off", "sync", "ticker"}
  <2>1. phase \in {"start", "running"} /\ input' = input /\ config' = config /\ pos' = pos
    BY DEF StartAgent, StartServer, Stop, Run, Panic, Exit
  <2> QED BY <2>1 DEF Safe, Precedence, StartAgent, StartServer, Stop, Run, Panic, Exit, BackupMode
<1>1. TypeOK'
  BY <1>0, InputStays DEF Safe, TypeOK
<1>2. Inv'
  <2>1. mode' # "none" => phase' \in {"running", "ended", "panicked"}
    BY DEF Safe, Inv, StartAgent, StartServer, Stop, Run, Panic, Exit
  <2> QED BY <1>0, <2>1 DEF Inv
<1>3. Precedence'
  BY <1>0, InputStays DEF Precedence
<1>4. BackupHasAFile'
  <2>1. CASE mode' = mode
    BY <1>0, <2>1, InputStays DEF Safe, BackupHasAFile
  <2>2. CASE mode' # mode /\ mode' \in {"sync", "ticker"}
    <3>1. StartServer /\ mode' = BackupMode /\ config["DataBaseDSN"] = Empty
      BY <2>2 DEF StartAgent, StartServer, Stop, Run, Panic, Exit
    <3>2. {"StoreFile", "StoreInterval", "DataBaseDSN"} \subseteq Fields
      BY <3>1 DEF StartServer, Fields, FieldsOf, ServerFields
    <3> QED BY <1>0, <2>2, <3>1, <3>2, InputStays DEF BackupMode, BackupHasAFile
  <2>3. CASE mode' \notin {"sync", "ticker"}
    BY <2>3 DEF BackupHasAFile
  <2> QED BY <2>1, <2>2, <2>3
<1> QED BY <1>1, <1>2, <1>3, <1>4 DEF Safe

\* The types, the inductive invariant and the two safety invariants, for every file,
\* command line and environment.
THEOREM StartInvariance == Spec => [](TypeOK /\ Inv /\ Precedence /\ BackupHasAFile)
<1>1. Init => Safe
  BY Initially DEF Safe
<1>2. Safe /\ [Next]_vars => Safe'
  <2> SUFFICES ASSUME Safe, [Next]_vars PROVE Safe'
    OBVIOUS
  <2>1. CASE UNCHANGED vars
    <3>1. /\ input' = input /\ phase' = phase /\ pos' = pos /\ config' = config
          /\ mode' = mode
      BY <2>1 DEF vars
    <3>2. TypeOK'
      BY <3>1, InputStays DEF Safe, TypeOK
    <3>3. Inv'
      BY <3>1, InputStays DEF Safe, Inv, Spoils
    <3> QED BY <3>1, <3>2, <3>3, InputStays DEF Safe, Precedence, BackupHasAFile
  <2> QED BY <2>1, FileStep, FlagStep, EnvStep, StartStep DEF Next
<1> QED BY <1>1, <1>2, PTL DEF Spec, Safe

\* The types alone: every layer leaves a configuration of the fields of its service.
THEOREM StartTypes == Spec => []TypeOK
BY StartInvariance, PTL

\* A service works with the values of the layer that comes first.
THEOREM LayersInOrder == Spec => []Precedence
BY StartInvariance, PTL

\* No backup without the name of a file, and none beside a database.
THEOREM BackupsHaveFiles == Spec => []BackupHasAFile
BY StartInvariance, PTL
-----------------------------------------------------------------------------
(* What nothing is wrong with does not fail *)

\* Only a key file without a block makes a member panic.
LEMMA MemberPanics ==
  ASSUME NEW m \in Member, Decoded(m).val = NoPEM
  PROVE  m.field = "CryptoKey" /\ m.val \in Texts /\ KeyFiles[m.val] = NoPEM
<1>0. /\ m.field \in AllFields /\ m.val \in Texts \cup BOOLEAN \cup {Other}
      /\ NoPEM \notin Texts \cup BOOLEAN \cup Int \cup {Bad}
  BY OddValuesAssumption DEF Member
<1>1. CASE m.field = "IsRestore"
  BY <1>0, <1>1 DEF Decoded
<1>2. CASE m.field # "IsRestore"
  <2>1. UnmarshalJSON(m.field, m.val).val = NoPEM
    BY <1>2 DEF Decoded
  <2>2. m.val \in Texts /\ Parsed(m.field, m.val) = NoPEM
    BY <1>0, <2>1 DEF UnmarshalJSON
  <2>3. Parsed(m.field, m.val) \notin ValuesOf(m.field) /\ Parsed(m.field, m.val) # Bad
    BY <1>0, <2>2, NoValues
  <2>4. m.field = "CryptoKey"
    BY <1>0, <2>2, <2>3, ParsedType
  <2> QED BY <2>2, <2>4, FieldKinds DEF Parsed
<1> QED BY <1>1, <1>2

\* An argument that nothing is wrong with is taken.
LEMMA ArgumentTaken ==
  ASSUME Fine, NEW i \in DOMAIN input.args, input.args \in Seq(Argument),
         Fields \subseteq AllFields, input.args[i].flag # "operand"
  PROVE  LET a == input.args[i]
         IN ~Refused(a) /\ (NoOp(a) \/ Parsed(a.flag, a.text) # NoPEM)
<1> DEFINE a == input.args[i]
<1>1. \/ a.flag = "config" /\ input.config = "unset"
      \/ a.flag = "CryptoKey" /\ a.text = Empty
      \/ a.flag \in Fields /\ Parsed(a.flag, a.text) # Bad
  BY DEF Fine
<1>2. a.flag = "CryptoKey" => KeyFiles[a.text] # NoPEM
  BY DEF Fine, NoKeyPanics
<1>3. "CryptoKey" \in Fields
  BY DEF Fields, FieldsOf, AgentFields, ServerFields
<1>4. CASE NoOp(a)
  BY <1>1, <1>3, <1>4 DEF NoOp, Refused, Defined
<1>5. CASE ~NoOp(a)
  <2>0. a \in Argument
    OBVIOUS
  <2>1. a.flag \in Fields /\ Parsed(a.flag, a.text) # Bad /\ a.text \in Texts
    BY <1>1, <1>5, <2>0 DEF NoOp, Argument
  <2>2. ~Refused(a)
    BY <2>1 DEF Refused, Defined
  <2>3. Parsed(a.flag, a.text) # NoPEM
    <3>1. CASE a.flag = "CryptoKey"
      BY <1>2, <3>1, FieldKinds DEF Parsed
    <3>2. CASE a.flag # "CryptoKey"
      BY <2>1, <3>2, ParsedType, NoValues
    <3> QED BY <3>1, <3>2
  <2> QED BY <2>2, <2>3
<1> QED BY <1>4, <1>5

\* No step before the service runs ends the program.
NeverFails == Fine => phase # "exited" /\ (phase = "panicked" => mode # "none")

LEMMA FineStays ==
  ASSUME input' = input
  PROVE  Fine' <=> Fine
<1>1. Fields' = Fields /\ Members' = Members /\ Environ' = Environ
  BY DEF Fields, Members, Environ
<1>2. NoKeyPanics' <=> NoKeyPanics
  BY <1>1 DEF NoKeyPanics
<1>3. \A f : Expected(f)' = Expected(f)
  BY InputStays
<1> QED BY <1>1, <1>2, <1>3 DEF Fine

LEMMA FineStep ==
  ASSUME Safe, Fine, Next
  PROVE  phase' # "exited" /\ (phase' = "panicked" => mode' # "none")
<1>1. CASE DecodeMember \/ DecodeEnd
  <2>1. CASE DecodeEnd
    BY <2>1 DEF DecodeEnd
  <2>2. CASE DecodeMember
    <3> DEFINE m == Members[pos + 1]
    <3>1. pos + 1 \in DOMAIN Members /\ m \in Member
      BY <2>2, InputType DEF DecodeMember, Safe, TypeOK
    <3>2. Decoded(m).val # NoPEM
      BY <3>1, MemberPanics DEF Fine, NoKeyPanics
    <3> QED BY <2>2, <3>2 DEF DecodeMember
  <2> QED BY <1>1, <2>1, <2>2
<1>2. CASE ParseFlag \/ ParseEnd
  <2>1. CASE ParseEnd
    BY <2>1 DEF ParseEnd
  <2>2. CASE ParseFlag
    <3> DEFINE a == input.args[pos + 1]
    <3>1. pos + 1 \in DOMAIN input.args /\ a.flag # "operand"
      BY <2>2, InputType DEF ParseFlag, AtEnd, Safe, TypeOK
    <3>2. ~Refused(a) /\ (NoOp(a) \/ Parsed(a.flag, a.text) # NoPEM)
      BY <3>1, ArgumentTaken, InputType DEF Safe
    <3> QED BY <2>2, <3>2 DEF ParseFlag
  <2> QED BY <1>2, <2>1, <2>2
<1>3. CASE ReadEnv
  <2>1. ~(EnvGives("CryptoKey") /\ KeyFiles[Environ["CryptoKey"]] = NoPEM)
    BY DEF Fine, NoKeyPanics, EnvGives
  <2> QED BY <1>3, <2>1 DEF ReadEnv
<1>4. CASE StartAgent
  <2>1. /\ config["PollInterval"] = Expected("PollInterval")
        /\ config["ReportInterval"] = Expected("ReportInterval")
    BY <1>4 DEF StartAgent, Safe, Precedence, Fields, FieldsOf, AgentFields
  <2> QED BY <1>4, <2>1 DEF StartAgent, Fine, Run
<1>5. CASE StartServer
  <2>1. /\ config["StoreInterval"] = Expected("StoreInterval")
        /\ config["DataBaseDSN"] = Expected("DataBaseDSN")
    BY <1>5 DEF StartServer, Safe, Precedence, Fields, FieldsOf, ServerFields
  <2>2. config["StoreInterval"] \in Int
    BY <1>5, FieldKinds DEF StartServer, Safe, TypeOK, Fields, FieldsOf, ServerFields,
                            Intervals, ValuesOf
  <2> QED BY <1>5, <2>1, <2>2 DEF StartServer, Fine, Run
<1>6. CASE Stop
  BY <1>6 DEF Stop, Safe, Inv
<1> QED BY <1>1, <1>2, <1>3, <1>4, <1>5, <1>6 DEF Next

\* The safety half of GoodInputStarts: a program that is started with nothing wrong
\* neither exits nor panics on its way to the service, in no layer and for no length of
\* file or command line; the fairness of main does the rest.
THEOREM GoodStartsGoOn == Spec => []NeverFails
<1>1. Init => NeverFails
  BY DEF Init, NeverFails
<1>2. Safe /\ NeverFails /\ [Next]_vars => NeverFails'
  <2> SUFFICES ASSUME Safe, NeverFails, [Next]_vars PROVE NeverFails'
    OBVIOUS
  <2>1. CASE UNCHANGED vars
    BY <2>1, FineStays DEF NeverFails, vars
  <2>2. CASE Next
    <3>1. input' = input
      BY <2>2 DEF Next, DecodeMember, DecodeEnd, ParseFlag, ParseEnd, ReadEnv, StartAgent,
                  StartServer, Stop
    <3> QED BY <2>2, <3>1, FineStays, FineStep DEF NeverFails
  <2> QED BY <2>1, <2>2
<1> QED BY <1>1, <1>2, StartInvariance, PTL DEF Spec, Safe
=============================================================================
