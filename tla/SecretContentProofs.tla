------------------------- MODULE SecretContentProofs -------------------------
(***************************************************************************)
(* Proofs about SecretContent, for every set of keys and values, every     *)
(* secret, list of mappings and template, and every bound.                 *)
(***************************************************************************)
EXTENDS SecretContent, SequenceTheorems, TLAPS

-----------------------------------------------------------------------------
\* Types and, by stage, what has been done so far.
StageInv ==
  /\ stage = "fetched" => i = 1 /\ pieces = <<>> /\ canContinue
  /\ stage = "mapping" => /\ pieces = <<>> /\ canContinue /\ i <= Len(mappings) + 1
                          /\ mappings # <<>> /\ kind = "object"
  /\ stage = "mapped" => Len(pieces) = i - 1 /\ i <= Len(template) + 1
  /\ stage = "done" => Len(pieces) = Len(template)
  /\ Len(mappings) <= MaxLength /\ Len(template) <= MaxLength
Inv == TypeOK /\ StageInv

\* A bounded sequence is a sequence.
LEMMA UpToSeq ==
  ASSUME NEW S, NEW s \in UpTo(S)
  PROVE  s \in Seq(S) /\ Len(s) <= MaxLength
<1>1. PICK n \in 0..MaxLength : s \in [1..n -> S]
  BY DEF UpTo
<1>2. n \in Nat /\ n <= MaxLength
  BY KeysAssumption
<1>3. s \in Seq(S)
  BY <1>1, <1>2, SeqDef
<1>4. Len(s) \in Nat /\ DOMAIN s = 1..Len(s) /\ DOMAIN s = 1..n
  BY <1>1, <1>3, LenProperties
<1> QED
  BY <1>2, <1>3, <1>4

LEMMA InvInit == Init => Inv
<1> SUFFICES ASSUME Init PROVE Inv
  OBVIOUS
<1>1. /\ mappings \in Seq(Mapping) /\ Len(mappings) <= MaxLength
      /\ template \in Seq(Placeholder) /\ Len(template) <= MaxLength
  BY UpToSeq DEF Init
<1>2. <<>> \in Seq(Values \cup {Whole, Empty})
  BY EmptySeq
<1> QED
  BY <1>1, <1>2, KeysAssumption DEF Init, Inv, TypeOK, StageInv

LEMMA ConfigFacts ==
  ASSUME TypeOK
  PROVE  /\ Len(mappings) \in Nat /\ Len(template) \in Nat /\ MaxLength \in Nat
         /\ \A n \in 1..Len(mappings) : mappings[n].from \in Keys /\ mappings[n].to \in Keys
         /\ \A n \in 1..Len(template) : template[n] \in Placeholder
<1>1. mappings \in Seq(Mapping) /\ template \in Seq(Placeholder)
  BY DEF TypeOK
<1>2. Len(mappings) \in Nat /\ Len(template) \in Nat
  BY <1>1, LenProperties
<1>3. \A n \in 1..Len(mappings) : mappings[n] \in Mapping
  BY <1>1, ElementOfSeq
<1>4. \A n \in 1..Len(template) : template[n] \in Placeholder
  BY <1>1, ElementOfSeq
<1> QED
  BY <1>2, <1>3, <1>4, KeysAssumption DEF Mapping

LEMMA InvNext == Inv /\ [Next]_vars => Inv'
<1> SUFFICES ASSUME TypeOK, StageInv, [Next]_vars PROVE TypeOK' /\ StageInv'
  BY DEF Inv
<1>0. /\ Len(mappings) \in Nat /\ Len(template) \in Nat /\ MaxLength \in Nat
      /\ \A n \in 1..Len(mappings) : mappings[n].from \in Keys /\ mappings[n].to \in Keys
      /\ \A n \in 1..Len(template) : template[n] \in Placeholder
  BY ConfigFacts
<1>1. CASE ReturnOriginal
  <2>1. Len(<<>>) = 0
    BY EmptySeq
  <2> QED
    BY <1>0, <1>1, <2>1 DEF ReturnOriginal, TypeOK, StageInv, config
<1>2. CASE StartMapping
  BY <1>0, <1>2 DEF StartMapping, TypeOK, StageInv, config, None
<1>3. ASSUME AtMapping, NextMapping, result' \in [Keys -> Values \cup {Absent}]
      PROVE  TypeOK' /\ StageInv'
  BY <1>0, <1>3 DEF AtMapping, NextMapping, TypeOK, StageInv, config
<1>4. ASSUME NEW k \in Keys, AtMapping, Move(k)
      PROVE  result' \in [Keys -> Values \cup {Absent}]
  <2>1. mappings[i].to \in Keys /\ fields[k] \in Values \cup {Absent}
    BY <1>0, <1>4 DEF AtMapping, TypeOK
  <2> QED
    BY <1>4, <2>1 DEF Move, TypeOK
<1>5. CASE Mapped
  <2>1. CASE MapDirect
    <3>1. AtMapping /\ NextMapping /\ mappings[i].from \in Keys /\ Move(mappings[i].from)
      BY <1>0, <2>1 DEF MapDirect, AtMapping, TypeOK
    <3> QED
      BY <1>3, <1>4, <3>1
  <2>2. CASE MapFolded
    BY <1>3, <1>4, <2>2 DEF MapFolded
  <2>3. CASE MapMissing
    BY <1>3, <2>3 DEF MapMissing, TypeOK
  <2> QED
    BY <1>5, <2>1, <2>2, <2>3 DEF Mapped
<1>6. CASE EndMapping
  <2>1. Len(<<>>) = 0
    BY EmptySeq
  <2> QED
    BY <1>0, <1>6, <2>1 DEF EndMapping, TypeOK, StageInv, config
<1>7. CASE Substituted
  <2>1. PICK piece \in Values \cup {Whole, Empty} : AtPlaceholder /\ Replace(piece)
    <3>1. AtPlaceholder => template[i] \in Keys \cup {Whole}
      BY <1>0 DEF AtPlaceholder, TypeOK, Placeholder
    <3> QED
      BY <1>7, <3>1
         DEF Substituted, FillWhole, FillField, FillUnparsable, FillStopped, TypeOK
  <2>2. canContinue' \in BOOLEAN
    BY <1>7 DEF Substituted, FillWhole, FillField, FillUnparsable, FillStopped, TypeOK
  <2>3. /\ Append(pieces, piece) \in Seq(Values \cup {Whole, Empty})
        /\ Len(Append(pieces, piece)) = Len(pieces) + 1
    BY AppendProperties DEF TypeOK
  <2> QED
    BY <1>0, <2>1, <2>2, <2>3 DEF AtPlaceholder, Replace, TypeOK, StageInv, config
<1>8. CASE Finish
  <2>1. Len(pieces) \in Nat
    BY LenProperties DEF TypeOK
  <2> QED
    BY <1>0, <1>8, <2>1 DEF Finish, TypeOK, StageInv, config
<1>9. CASE UNCHANGED vars
  BY <1>9 DEF vars, config, TypeOK, StageInv
<1> QED
  BY <1>1, <1>2, <1>5, <1>6, <1>7, <1>8, <1>9 DEF Next

THEOREM TypeCorrect == Spec => []TypeOK
<1>1. Inv => TypeOK
  BY DEF Inv
<1> QED
  BY <1>1, InvInit, InvNext, PTL DEF Spec

-----------------------------------------------------------------------------
\* The mapping moves values and makes none up.
LEMMA NoInventionNext == Inv /\ NoInvention /\ [Next]_vars => NoInvention'
<1> SUFFICES ASSUME TypeOK, NoInvention, [Next]_vars PROVE NoInvention'
  BY DEF Inv
<1>0. Absent \notin Values
  BY KeysAssumption
<1>1. CASE UNCHANGED <<fields, result>>
  BY <1>1 DEF NoInvention, Has
<1>2. CASE StartMapping
  BY <1>2 DEF StartMapping, config, None, NoInvention, Has, TypeOK
<1>3. ASSUME NEW j \in Keys, Has(j), AtMapping, Move(j), UNCHANGED fields
      PROVE  NoInvention'
  <2>1. mappings[i].to \in Keys
    BY <1>3, ConfigFacts DEF AtMapping, TypeOK
  <2>2. \A k \in Keys : result'[k] \in {result[k], fields[j], Absent}
    BY <1>3, <2>1 DEF Move, TypeOK
  <2> QED
    BY <1>3, <2>2 DEF NoInvention, Has
<1>4. CASE MapDirect
  <2>1. mappings[i].from \in Keys
    BY <1>4, ConfigFacts DEF MapDirect, AtMapping, TypeOK
  <2> QED
    BY <1>3, <1>4, <2>1 DEF MapDirect, NextMapping, config
<1>5. CASE MapFolded
  BY <1>3, <1>5 DEF MapFolded, NextMapping, config
<1> QED
  BY <1>1, <1>2, <1>4, <1>5
     DEF Next, ReturnOriginal, Mapped, MapMissing, NextMapping, EndMapping, Substituted,
         FillWhole, FillField, FillUnparsable, FillStopped, Replace, Finish, vars, config

THEOREM NothingInvented == Spec => []NoInvention
<1>1. Init => NoInvention
  BY DEF Init, NoInvention, Has
<1> QED
  BY <1>1, InvInit, InvNext, NoInventionNext, PTL DEF Spec

-----------------------------------------------------------------------------
\* The mappings leave alone what none of them names.
LEMMA UnmappedNext == Inv /\ UnmappedFields /\ [Next]_vars => UnmappedFields'
<1> SUFFICES ASSUME TypeOK, StageInv, UnmappedFields, [Next]_vars PROVE UnmappedFields'
  BY DEF Inv
<1>1. CASE UNCHANGED <<config, result>> /\ (stage = "fetched" => stage' = "fetched")
  BY <1>1 DEF UnmappedFields, Unmapped, config, TypeOK
<1>2. CASE ReturnOriginal
  BY <1>2 DEF ReturnOriginal, UnmappedFields, config
<1>3. CASE StartMapping
  BY <1>3 DEF StartMapping, UnmappedFields, config, None, TypeOK
<1>4. ASSUME NEW j \in Keys, AtMapping, NextMapping, Move(j),
             Fold[j] = Fold[mappings[i].from]
      PROVE  UnmappedFields'
  <2>1. i \in 1..Len(mappings) /\ mappings[i].to \in Keys
    BY <1>4, ConfigFacts DEF AtMapping, TypeOK
  <2>2. \A k \in Keys : Unmapped(k) => k # j /\ k # mappings[i].to
    BY <1>4, <2>1 DEF Unmapped
  <2>3. \A k \in Keys : Unmapped(k) => result'[k] = result[k]
    BY <1>4, <2>1, <2>2 DEF Move, TypeOK
  <2> QED
    BY <1>4, <2>3 DEF AtMapping, NextMapping, UnmappedFields, Unmapped, config
<1>5. CASE MapDirect
  <2>1. mappings[i].from \in Keys
    BY <1>5, ConfigFacts DEF MapDirect, AtMapping, TypeOK
  <2> QED
    BY <1>4, <1>5, <2>1 DEF MapDirect
<1>6. CASE MapFolded
  BY <1>4, <1>6 DEF MapFolded
<1> QED
  BY <1>1, <1>2, <1>3, <1>5, <1>6
     DEF Next, Mapped, MapMissing, NextMapping, EndMapping, Substituted, FillWhole,
         FillField, FillUnparsable, FillStopped, Replace, Finish, vars

THEOREM UnmappedFieldsKept == Spec => []UnmappedFields
<1>1. Init => UnmappedFields
  BY DEF Init, UnmappedFields
<1> QED
  BY <1>1, InvInit, InvNext, UnmappedNext, PTL DEF Spec

-----------------------------------------------------------------------------
\* The flag of Substitute says whether a field has been asked of a text.
FlagInv ==
  canContinue <=> ~(kind = "text" /\ \E m \in 1..Len(pieces) : template[m] # Whole)
FillInv == FlagInv /\ FilledAsDocumented

LEMMA FillNext == Inv /\ FillInv /\ [Next]_vars => FillInv'
<1> SUFFICES ASSUME TypeOK, StageInv, FlagInv, FilledAsDocumented, [Next]_vars
             PROVE  FlagInv' /\ FilledAsDocumented'
  BY DEF Inv, FillInv
<1>1. CASE UNCHANGED <<config, canContinue, pieces>>
  BY <1>1 DEF FlagInv, FilledAsDocumented, Replacement, config
<1>2. ASSUME NEW piece, AtPlaceholder, Replace(piece),
             kind = "object" \/ (\A m \in 1..(i - 1) : template[m] = Whole) =>
               piece = Replacement(i),
             canContinue' <=> ~(kind = "text" /\ \E m \in 1..i : template[m] # Whole)
      PROVE  FlagInv' /\ FilledAsDocumented'
  <2>1. Len(pieces) = i - 1 /\ i \in Nat \ {0}
    BY <1>2 DEF AtPlaceholder, StageInv, TypeOK
  <2>2. /\ Len(pieces') = i
        /\ \A n \in 1..i : pieces'[n] = IF n = i THEN piece ELSE pieces[n]
    BY <1>2, <2>1 DEF Replace, TypeOK
  <2>3. UNCHANGED config
    BY <1>2 DEF Replace
  <2>4. \A n \in 1..i :
          kind = "object" \/ (\A m \in 1..(n - 1) : template[m] = Whole) =>
            pieces'[n] = Replacement(n)
    BY <1>2, <2>1, <2>2 DEF FilledAsDocumented
  <2> QED
    BY <1>2, <2>2, <2>3, <2>4 DEF FlagInv, FilledAsDocumented, Replacement, config
<1>3. CASE Substituted
  <2>1. AtPlaceholder /\ Len(pieces) = i - 1 /\ i \in Nat \ {0}
    BY <1>3
       DEF Substituted, FillWhole, FillField, FillUnparsable, FillStopped,
           AtPlaceholder, StageInv, TypeOK
  <2>2. \A m \in 1..i : m = i \/ m \in 1..Len(pieces)
    BY <2>1
  <2>3. i \in 1..i /\ \A m \in 1..Len(pieces) : m \in 1..i
    BY <2>1
  <2>4. CASE FillWhole
    <3>1. ~(kind = "text" /\ \E m \in 1..i : template[m] # Whole)
      BY <2>2, <2>4 DEF FillWhole, FlagInv
    <3> QED
      BY <1>2, <2>4, <3>1 DEF FillWhole, Replacement
  <2>5. CASE FillField
    BY <1>2, <2>5 DEF FillField, Replacement
  <2>6. CASE FillUnparsable
    BY <1>2, <2>3, <2>6 DEF FillUnparsable, Replacement
  <2>7. CASE FillStopped
    <3>1. kind = "text" /\ \E m \in 1..(i - 1) : template[m] # Whole
      BY <2>1, <2>7 DEF FillStopped, FlagInv
    <3>2. ~(kind = "object" \/ (\A m \in 1..(i - 1) : template[m] = Whole))
      BY <3>1
    <3>3. \E m \in 1..i : template[m] # Whole
      BY <2>1, <2>3, <3>1
    <3> QED
      BY <1>2, <2>7, <3>1, <3>2, <3>3 DEF FillStopped
  <2> QED
    BY <1>3, <2>4, <2>5, <2>6, <2>7 DEF Substituted
<1> QED
  BY <1>1, <1>3
     DEF Next, ReturnOriginal, StartMapping, Mapped, MapDirect, MapFolded, MapMissing,
         NextMapping, EndMapping, Finish, vars

\* One pass with a flag fills every placeholder as if it were alone, but for those
\* after a field asked of a secret that is no JSON object.
THEOREM SubstitutionCorrect == Spec => []FilledAsDocumented
<1>1. Init => FillInv
  <2>1. Len(<<>>) = 0
    BY EmptySeq
  <2> QED
    BY <2>1 DEF Init, FillInv, FlagInv, FilledAsDocumented
<1>2. FillInv => FilledAsDocumented
  BY DEF FillInv
<1> QED
  BY <1>1, <1>2, InvInit, InvNext, FillNext, PTL DEF Spec

-----------------------------------------------------------------------------
\* Mapping n names the field j.
Names(n, j) == Has(j) /\ Fold[mappings[n].from] = Fold[j]

\* Between two mappings, result is the renaming by those before i.
PrefixRenamed ==
  \A k \in Keys :
    /\ \A n \in 1..(i - 1), j \in Keys :
         mappings[n].to = k /\ Names(n, j) => result[k] = fields[j]
    /\ (\A n \in 1..(i - 1), j \in Keys : mappings[n].to = k => ~Names(n, j)) =>
         result[k] = IF mode = "keep_all" /\ \A n \in 1..(i - 1) : Fold[mappings[n].from] # Fold[k]
                     THEN fields[k] ELSE Absent
TameInv ==
  /\ stage = "mapping" /\ Tame => PrefixRenamed
  /\ RenamesWhenTame

\* A mapping that names a field adds itself to the renaming: no other field is
\* named by it, and no mapping before it has the same target.
LEMMA MoveRenames ==
  ASSUME TypeOK, Tame, PrefixRenamed, AtMapping, NextMapping,
         NEW f \in Keys, Names(i, f), Move(f)
  PROVE  PrefixRenamed'
<1> DEFINE t == mappings[i].to
<1>1. i \in 1..Len(mappings) /\ t \in Keys /\ Len(mappings) \in Nat
  BY ConfigFacts DEF AtMapping, TypeOK
<1>2. \A n \in 1..(i' - 1) : n = i \/ n \in 1..(i - 1)
  BY <1>1 DEF NextMapping
<1>3. /\ UNCHANGED <<fields, mappings, mode>>
      /\ i \in 1..(i' - 1) /\ \A n \in 1..(i - 1) : n \in 1..(i' - 1)
      /\ \A n \in 1..(i - 1) : n \in 1..Len(mappings) /\ n # i
  BY <1>1 DEF NextMapping, config
<1>4. t # f /\ \A n \in 1..(i - 1) : mappings[n].to \notin {t, f}
  BY <1>1, <1>3 DEF Tame, Names
<1>5. \A j \in Keys : Names(i, j) => j = f
  BY DEF Tame, Names
<1>6. /\ result'[t] = fields[f]
      /\ result'[f] = IF mode = "keep_all" THEN Absent ELSE result[f]
      /\ \A k \in Keys \ {t, f} : result'[k] = result[k]
  BY <1>1, <1>4 DEF Move, TypeOK
<1> SUFFICES ASSUME NEW k \in Keys
             PROVE  /\ \A n \in 1..(i' - 1), j \in Keys :
                         mappings[n].to = k /\ Names(n, j) => result'[k] = fields[j]
                    /\ (\A n \in 1..(i' - 1), j \in Keys : mappings[n].to = k => ~Names(n, j)) =>
                         result'[k] = IF mode = "keep_all"
                                         /\ \A n \in 1..(i' - 1) : Fold[mappings[n].from] # Fold[k]
                                      THEN fields[k] ELSE Absent
  BY <1>3 DEF PrefixRenamed, Names, Has
<1>7. CASE k = t
  BY <1>2, <1>3, <1>4, <1>5, <1>6, <1>7
<1>8. CASE k = f
  <2>1. /\ \A n \in 1..(i' - 1) : mappings[n].to # k
        /\ Fold[mappings[i].from] = Fold[k]
    BY <1>2, <1>4, <1>8 DEF Names
  <2>2. mode # "keep_all" => result[k] = Absent
    BY <1>3, <2>1 DEF PrefixRenamed
  <2> QED
    BY <1>3, <1>6, <1>8, <2>1, <2>2
<1>9. CASE k \notin {t, f}
  <2>1. Fold[mappings[i].from] = Fold[k] => fields[k] = Absent
    BY <1>5, <1>9 DEF Names, Has
  <2> QED
    BY <1>2, <1>3, <1>6, <1>9, <2>1 DEF PrefixRenamed
<1> QED
  BY <1>7, <1>8, <1>9

\* A mapping that names no field adds nothing.
LEMMA MissRenames ==
  ASSUME TypeOK, Tame, PrefixRenamed, MapMissing
  PROVE  PrefixRenamed'
<1>1. /\ i \in 1..Len(mappings) /\ Len(mappings) \in Nat
      /\ UNCHANGED <<fields, mappings, mode, result>>
  BY ConfigFacts DEF MapMissing, AtMapping, NextMapping, config, TypeOK
<1>2. \A n \in 1..(i' - 1) : n = i \/ n \in 1..(i - 1)
  BY <1>1 DEF MapMissing, NextMapping
<1>3. \A n \in 1..(i - 1) : n \in 1..(i' - 1)
  BY <1>1 DEF MapMissing, NextMapping
<1>4. \A j \in Keys : ~Names(i, j)
  BY DEF MapMissing, Names
<1>5. \A k \in Keys : Fold[mappings[i].from] = Fold[k] => fields[k] = Absent
  BY <1>4 DEF Names, Has
<1> QED
  BY <1>1, <1>2, <1>3, <1>4, <1>5 DEF PrefixRenamed, Names, Has

\* The renaming by all mappings is Renamed.
LEMMA PrefixIsAll ==
  ASSUME TypeOK, Tame, PrefixRenamed, i = Len(mappings) + 1
  PROVE  result = Renamed
<1>1. /\ Len(mappings) \in Nat /\ i - 1 = Len(mappings)
      /\ \A n \in 1..Len(mappings) : mappings[n].to \in Keys
  BY ConfigFacts
<1> SUFFICES ASSUME NEW k \in Keys PROVE result[k] = Renamed[k]
  BY DEF Renamed, TypeOK
<1> DEFINE sources == Sources(k)
<1>2. Renamed[k] = IF sources # {} THEN fields[CHOOSE j \in sources : TRUE]
                   ELSE IF mode = "keep_all" /\ Unmapped(k) THEN fields[k] ELSE Absent
  BY DEF Renamed
<1>3. \A j \in sources : result[k] = fields[j]
  BY <1>1 DEF PrefixRenamed, Names, Sources
<1>4. CASE sources # {}
  <2>1. (CHOOSE j \in sources : TRUE) \in sources
    BY <1>4
  <2> HIDE DEF sources
  <2> QED
    BY <1>2, <1>3, <1>4, <2>1
<1>5. CASE sources = {}
  <2>1. \A n \in 1..Len(mappings), j \in Keys : mappings[n].to = k => ~Names(n, j)
    BY <1>5 DEF Names, Sources
  <2>2. (\E n \in 1..Len(mappings) : mappings[n].to = k) => fields[k] = Absent
    BY DEF Tame, Has
  <2>3. result[k] = IF mode = "keep_all"
                       /\ \A n \in 1..Len(mappings) : Fold[mappings[n].from] # Fold[k]
                    THEN fields[k] ELSE Absent
    BY <1>1, <2>1 DEF PrefixRenamed
  <2> QED
    BY <1>2, <1>5, <2>2, <2>3 DEF Unmapped
<1> QED
  BY <1>4, <1>5

LEMMA TameNext == Inv /\ TameInv /\ [Next]_vars => TameInv'
<1> SUFFICES ASSUME TypeOK, StageInv, TameInv, [Next]_vars PROVE TameInv'
  BY DEF Inv
<1>0. UNCHANGED config => (Tame' <=> Tame)
  BY DEF config, Tame, Has
<1>1. ASSUME UNCHANGED <<config, result>>, stage # "mapping", stage' # "mapping",
             stage = "fetched" => stage' = "fetched"
      PROVE  TameInv'
  <2>1. Renamed' = Renamed
    BY <1>1 DEF config, Renamed, Sources, Unmapped, Has
  <2>2. UNCHANGED <<kind, mappings>> /\ (stage' \in {"mapped", "done"} => stage \in {"mapped", "done"})
    BY <1>1 DEF config, TypeOK
  <2> QED
    BY <1>0, <1>1, <2>1, <2>2 DEF TameInv, RenamesWhenTame
<1>2. CASE ReturnOriginal
  BY <1>2 DEF ReturnOriginal, TameInv, RenamesWhenTame, config
<1>3. CASE StartMapping
  <2>1. i' = 1 /\ stage' = "mapping"
    BY <1>3 DEF StartMapping, StageInv
  <2>2. result' = IF mode' = "keep_all" THEN fields' ELSE None
    BY <1>3 DEF StartMapping, config
  <2> QED
    BY <2>1, <2>2 DEF TameInv, RenamesWhenTame, PrefixRenamed, None
<1>4. CASE Mapped
  <2>1. stage = "mapping" /\ stage' = "mapping" /\ UNCHANGED config
    BY <1>4 DEF Mapped, MapDirect, MapFolded, MapMissing, AtMapping, NextMapping
  <2>2. ASSUME Tame PROVE PrefixRenamed'
    <3>1. PrefixRenamed
      BY <2>1, <2>2 DEF TameInv
    <3>2. CASE MapDirect
      <4>1. mappings[i].from \in Keys
        BY <3>2, ConfigFacts DEF MapDirect, AtMapping, TypeOK
      <4> QED
        BY <2>2, <3>1, <3>2, <4>1, MoveRenames DEF MapDirect, Names
    <3>3. CASE MapFolded
      BY <2>2, <3>1, <3>3, MoveRenames DEF MapFolded, Names
    <3>4. CASE MapMissing
      BY <2>2, <3>1, <3>4, MissRenames
    <3> QED
      BY <1>4, <3>2, <3>3, <3>4 DEF Mapped
  <2> QED
    BY <1>0, <2>1, <2>2 DEF TameInv, RenamesWhenTame
<1>5. CASE EndMapping
  <2>1. /\ stage = "mapping" /\ stage' = "mapped" /\ UNCHANGED <<config, result>>
        /\ i = Len(mappings) + 1
    BY <1>5, ConfigFacts DEF EndMapping, StageInv, TypeOK
  <2>2. Tame => result = Renamed
    BY <2>1, PrefixIsAll DEF TameInv
  <2>3. Renamed' = Renamed
    BY <2>1 DEF config, Renamed, Sources, Unmapped, Has
  <2> QED
    BY <1>0, <2>1, <2>2, <2>3 DEF TameInv, RenamesWhenTame
<1>6. CASE Substituted \/ Finish \/ UNCHANGED vars
  <2>1. CASE Substituted
    BY <1>1, <2>1
       DEF Substituted, FillWhole, FillField, FillUnparsable, FillStopped, AtPlaceholder, Replace
  <2>2. CASE Finish
    BY <1>1, <2>2 DEF Finish
  <2>3. CASE UNCHANGED vars
    BY <2>3 DEF vars, config, TameInv, RenamesWhenTame, PrefixRenamed, Names, Tame, Has, Renamed, Sources, Unmapped
  <2> QED
    BY <1>6, <2>1, <2>2, <2>3
<1> QED
  BY <1>2, <1>3, <1>4, <1>5, <1>6 DEF Next

\* For a tame configuration the mapping loop computes Renamed, for every secret
\* and list of mappings, and whichever field in another case Go's map iteration
\* comes upon.
THEOREM RenamingCorrect == Spec => []RenamesWhenTame
<1>1. Init => TameInv
  BY DEF Init, TameInv, RenamesWhenTame
<1>2. TameInv => RenamesWhenTame
  BY DEF TameInv
<1> QED
  BY <1>1, <1>2, InvInit, InvNext, TameNext, PTL DEF Spec

=============================================================================
