---------------------------- MODULE SecretContent ----------------------------
(***************************************************************************)
(* What getSecret of a file provider makes of the string it fetched: the   *)
(* key mapping of "transform" or the substitution of "template" (Create    *)
(* rejects a provider configured with both).                               *)
(*                                                                         *)
(* A secret that parses as a JSON object is a function from keys to values *)
(* ("null" parses as the object without fields); any other string is a     *)
(* "text".  A template is the sequence of its placeholders: a key for      *)
(* ##secret.key##, Whole for ##secret##.                                   *)
(***************************************************************************)
EXTENDS Naturals, Sequences

CONSTANTS
  Keys, Values,
  Fold,     \* strings.ToLower on keys
  Nested,   \* the value that is itself an object
  Absent,   \* what a key without a field maps to
  Whole, Empty, \* a placeholder for the whole secret; the empty replacement
  MaxLength \* bound on the number of mappings and of placeholders

ASSUME KeysAssumption ==
  /\ Fold \in [Keys -> Keys]
  /\ Nested \in Values /\ Absent \notin Values
  /\ Whole \notin Keys \cup Values /\ Empty \notin Values \cup {Whole, Absent}
  /\ MaxLength \in Nat

Mapping == [from : Keys, to : Keys]
Placeholder == Keys \cup {Whole}
UpTo(S) == UNION {[1..n -> S] : n \in 0..MaxLength}

VARIABLES
  kind, fields,              \* the fetched secret
  mode, mappings, template,  \* the configuration
  stage, i,                  \* where getSecret is, and in which iteration
  result,                    \* mappedData
  canContinue, pieces        \* Substitute: its flag, the replacements so far

config == <<kind, fields, mode, mappings, template>>
vars == <<config, stage, i, result, canContinue, pieces>>

Has(k) == fields[k] # Absent
None == [k \in Keys |-> Absent]

Init ==
  /\ kind \in {"object", "text"}
  /\ fields \in [Keys -> Values \cup {Absent}]
  /\ kind = "text" => fields = None
  /\ mode \in {"keep_all", "transformed_only"}
  /\ mappings \in UpTo(Mapping) /\ template \in UpTo(Placeholder)
  /\ mappings = <<>> \/ template = <<>>
  /\ stage = "fetched" /\ i = 1
  /\ result = fields
  /\ canContinue = TRUE /\ pieces = <<>>

-----------------------------------------------------------------------------
\* Transform: no mappings, or no JSON: the secret is returned as it is.
ReturnOriginal ==
  /\ stage = "fetched"
  /\ mappings = <<>> \/ kind = "text"
  /\ stage' = "mapped"
  /\ UNCHANGED <<config, i, result, canContinue, pieces>>

\* Slip: the mode is not looked at.
StartFromNothing ==
  /\ stage = "fetched" /\ mappings # <<>> /\ kind = "object"
  /\ result' = None /\ stage' = "mapping"
  /\ UNCHANGED <<config, i, canContinue, pieces>>
StartMapping ==
  /\ stage = "fetched" /\ mappings # <<>> /\ kind = "object"
  /\ result' = IF mode = "keep_all" THEN fields ELSE None
  /\ stage' = "mapping"
  /\ UNCHANGED <<config, i, canContinue, pieces>>

\* One mapping: the value of field k goes to the target, and in keep_all mode
\* k is deleted afterwards (a mapping of a key to itself deletes it).
Move(k) ==
  LET moved == [result EXCEPT ![mappings[i].to] = fields[k]]
  IN  result' = IF mode = "keep_all" THEN [moved EXCEPT ![k] = Absent] ELSE moved

NextMapping ==
  /\ i' = i + 1
  /\ UNCHANGED <<config, stage, canContinue, pieces>>

AtMapping == stage = "mapping" /\ i <= Len(mappings)

MapDirect ==
  /\ AtMapping /\ Has(mappings[i].from)
  /\ Move(mappings[i].from)
  /\ NextMapping

\* Slip: the configured spelling is deleted instead of the field's own.
MapFoldedDeletingFrom ==
  /\ AtMapping /\ ~Has(mappings[i].from)
  /\ \E k \in Keys :
       /\ Has(k) /\ Fold[k] = Fold[mappings[i].from]
       /\ result' = [result EXCEPT ![mappings[i].to] = fields[k],
                                   ![mappings[i].from] = Absent]
  /\ NextMapping

\* No field of that name: any one that differs in case only, in map order.
MapFolded ==
  /\ AtMapping /\ ~Has(mappings[i].from)
  /\ \E k \in Keys : Has(k) /\ Fold[k] = Fold[mappings[i].from] /\ Move(k)
  /\ NextMapping

\* Slip: a missing field is mapped to the zero value.
MapMissingToNil ==
  /\ AtMapping
  /\ \A k \in Keys : Fold[k] = Fold[mappings[i].from] => ~Has(k)
  /\ result' = [result EXCEPT ![mappings[i].to] = Empty]
  /\ NextMapping

\* Neither: a warning, and the mapping has no effect.
MapMissing ==
  /\ AtMapping
  /\ \A k \in Keys : Fold[k] = Fold[mappings[i].from] => ~Has(k)
  /\ NextMapping
  /\ UNCHANGED result

EndMapping ==
  /\ stage = "mapping" /\ i > Len(mappings)
  /\ stage' = "mapped" /\ i' = 1
  /\ UNCHANGED <<config, result, canContinue, pieces>>

Mapped == MapDirect \/ MapFolded \/ MapMissing

-----------------------------------------------------------------------------
\* Substitute, on the secret itself: with a template there is no mapping.
AtPlaceholder == stage = "mapped" /\ i <= Len(template)

Replace(piece) ==
  /\ pieces' = Append(pieces, piece)
  /\ i' = i + 1
  /\ UNCHANGED <<config, stage, result>>

FillWhole ==
  /\ AtPlaceholder /\ canContinue /\ template[i] = Whole
  /\ Replace(Whole) /\ UNCHANGED canContinue

\* Slip: a field that cannot be found ends the substitution.
FillFieldAndStop ==
  /\ AtPlaceholder /\ canContinue /\ template[i] # Whole /\ kind = "object"
  /\ Replace(IF fields[template[i]] \in {Absent, Nested} THEN Empty ELSE fields[template[i]])
  /\ canContinue' = (fields[template[i]] \notin {Absent, Nested})

\* A field that is missing or an object is logged and leaves nothing.
FillField ==
  /\ AtPlaceholder /\ canContinue /\ template[i] # Whole /\ kind = "object"
  /\ Replace(IF fields[template[i]] \in {Absent, Nested} THEN Empty ELSE fields[template[i]])
  /\ UNCHANGED canContinue

\* The secret is no JSON object: nothing, for this and every later placeholder.
FillUnparsable ==
  /\ AtPlaceholder /\ canContinue /\ template[i] # Whole /\ kind = "text"
  /\ Replace(Empty) /\ canContinue' = FALSE

FillStopped ==
  /\ AtPlaceholder /\ ~canContinue
  /\ Replace(Empty) /\ UNCHANGED canContinue

Finish ==
  /\ stage = "mapped" /\ i > Len(template)
  /\ stage' = "done"
  /\ UNCHANGED <<config, i, result, canContinue, pieces>>

Substituted == FillWhole \/ FillField \/ FillUnparsable \/ FillStopped

Next == \/ ReturnOriginal \/ StartMapping \/ Mapped \/ EndMapping
        \/ Substituted \/ Finish

Spec == Init /\ [][Next]_vars

-----------------------------------------------------------------------------
TypeOK ==
  /\ kind \in {"object", "text"}
  /\ fields \in [Keys -> Values \cup {Absent}]
  /\ mode \in {"keep_all", "transformed_only"}
  /\ mappings \in Seq(Mapping) /\ template \in Seq(Placeholder)
  /\ stage \in {"fetched", "mapping", "mapped", "done"}
  /\ i \in 1..(MaxLength + 1)
  /\ result \in [Keys -> Values \cup {Absent}]
  /\ canContinue \in BOOLEAN
  /\ pieces \in Seq(Values \cup {Whole, Empty})

\* The mapping only moves values: what it puts under a key is a value that the
\* fetched secret has under some key.
NoInvention ==
  \A k \in Keys : result[k] # Absent => \E j \in Keys : Has(j) /\ result[k] = fields[j]

\* No mapping names k, in whatever case, nor maps onto it.
Unmapped(k) ==
  \A n \in 1..Len(mappings) : Fold[mappings[n].from] # Fold[k] /\ mappings[n].to # k

\* Fields no mapping names come through with their value in keep_all mode, and
\* do not come through in transformed_only mode.
UnmappedFields ==
  stage \in {"mapping", "mapped", "done"} /\ mappings # <<>> /\ kind = "object" =>
    \A k \in Keys : Unmapped(k) =>
      result[k] = IF mode = "keep_all" THEN fields[k] ELSE Absent

\* A configuration without surprises for this secret: no two fields are the same
\* but for case, targets are new and distinct.
Tame ==
  /\ \A j, k \in Keys : Has(j) /\ Has(k) /\ Fold[j] = Fold[k] => j = k
  /\ \A n \in 1..Len(mappings) : ~Has(mappings[n].to)
  /\ \A m, n \in 1..Len(mappings) : mappings[m].to = mappings[n].to => m = n

\* The fields a mapping names for the target k, in whatever case.
Sources(k) ==
  {j \in Keys : Has(j) /\ \E n \in 1..Len(mappings) :
                  mappings[n].to = k /\ Fold[mappings[n].from] = Fold[j]}

\* The outcome of the mapping without its loop: the field a mapping names moves
\* to the target; keep_all keeps the others.  A field that moves leaves its old
\* key in keep_all too: so does the code, and so the test of file_json has it
\* ("original key is removed when mapped"), not the documentation: OriginalsKept.
Renamed ==
  [k \in Keys |->
    IF Sources(k) # {} THEN fields[CHOOSE j \in Sources(k) : TRUE]
    ELSE IF mode = "keep_all" /\ Unmapped(k) THEN fields[k] ELSE Absent]

\* With a tame configuration the loop computes Renamed, whatever the order of
\* Go's map iteration and of the mappings.
RenamesWhenTame ==
  stage \in {"mapped", "done"} /\ mappings # <<>> /\ kind = "object" /\ Tame =>
    result = Renamed

\* What the template's documentation says of each placeholder, by itself:
\* ##secret## becomes the secret, ##secret.key## the field of that name, or
\* nothing if there is none that can be used.
Replacement(n) ==
  IF template[n] = Whole THEN Whole
  ELSE IF kind = "text" \/ fields[template[n]] \in {Absent, Nested} THEN Empty
  ELSE fields[template[n]]

\* Every placeholder is filled as documented, however many others there are and
\* whatever they lack; but for those that come after one that asked a secret
\* that is no JSON object for a field.  There the code does not keep what is
\* documented: it replaces them by nothing, ##secret## included.
FilledAsDocumented ==
  \A n \in 1..Len(pieces) :
    kind = "object" \/ (\A m \in 1..(n - 1) : template[m] = Whole) =>
      pieces[n] = Replacement(n)

-----------------------------------------------------------------------------
\* A claim of the documentation that the code does not keep.

\* keep_all "keeps all original keys plus transformed keys": every field of the
\* secret is still there under its own key, unless a mapping has that target.
OriginalsKept ==
  stage = "done" /\ mode = "keep_all" =>
    \A k \in Keys :
      Has(k) /\ (\A n \in 1..Len(mappings) : mappings[n].to # k) => result[k] = fields[k]
=============================================================================
