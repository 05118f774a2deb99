--------------------------- MODULE NodeDataProofs ---------------------------
(***************************************************************************)
(* A step and the data of its node: what the next session reads is what    *)
(* this one wrote, and what belongs to no field is kept.                   *)
(***************************************************************************)
EXTENDS NodeData, TLAPS

-----------------------------------------------------------------------------
(***************************************************************************)
(* The catalog.                                                            *)
(***************************************************************************)
\* The keys of the file that are no field of any kind.
Keys == {"messageText", "newText", "dynamicMessageText", "jsCode"}

LEMMA KeysAreNoFields == \A k \in DOMAIN Catalog : Catalog[k] \cap Keys = {}
<1>1. \A k \in DOMAIN TriggerFields : TriggerFields[k] \cap Keys = {}
  BY DEF TriggerFields, Keys
<1>2. \A k \in DOMAIN SendFields : SendFields[k] \cap Keys = {}
  BY DEF SendFields, MediaFields, CommonMessage, Keys
<1>3. \A k \in DOMAIN MessageFields : MessageFields[k] \cap Keys = {}
  BY DEF MessageFields, CommonMessage, Keys
<1>4. \A k \in DOMAIN LogicFields : LogicFields[k] \cap Keys = {}
  BY DEF LogicFields, Keys
<1>5. \A k \in DOMAIN ServiceFields : ServiceFields[k] \cap Keys = {}
  BY DEF ServiceFields, Keys
<1> QED
  BY <1>1, <1>2, <1>3, <1>4, <1>5 DEF Catalog, Over

LEMMA KindsInCatalog ==
    /\ Catalog["callback_button_trigger"] = {"selected_callbacks", "state"}
    /\ \A k \in ContextTriggers : "context" \notin Catalog[k] /\ "value" \in Catalog[k]
    /\ \A k \in CollectionLoads : "collection" \notin Catalog[k]
<1>1. /\ DOMAIN TriggerFields = {"command_trigger", "message_trigger", "callback_query_trigger",
            "callback_button_trigger", "reply_button_trigger", "external_webhook_trigger", "cron_trigger"}
      /\ TriggerFields["callback_button_trigger"] = {"selected_callbacks", "state"}
      /\ TriggerFields["callback_query_trigger"] = {"filter", "value", "state"}
      /\ TriggerFields["message_trigger"] = {"message_type", "filter", "value", "state"}
  BY DEF TriggerFields
<1>2. CollectionLoads \cap (DOMAIN TriggerFields \cup DOMAIN SendFields) = {}
  BY <1>1 DEF CollectionLoads, SendFields
<1>3. CollectionLoads \cap (DOMAIN MessageFields \cup DOMAIN LogicFields) = {}
  BY DEF CollectionLoads, MessageFields, LogicFields
<1>4. \A k \in CollectionLoads : k \in DOMAIN ServiceFields /\ "collection" \notin ServiceFields[k]
  BY DEF CollectionLoads, ServiceFields
<1> QED
  BY <1>1, <1>2, <1>3, <1>4 DEF Catalog, Over, ContextTriggers

-----------------------------------------------------------------------------
(***************************************************************************)
(* The places of the fields.                                               *)
(***************************************************************************)
LEMMA TwoCandidates ==
    ASSUME NEW k, NEW f
    PROVE  \/ \E c : Candidates(k, f) = <<c>>
           \/ \E c, d : c # d /\ Candidates(k, f) = <<c, d>>
<1>1. CASE f = "text" /\ k \in {"send_text", "edit_message"}
  BY <1>1 DEF Candidates
<1>2. CASE f = "text" /\ k = "edit_or_send_text"
  BY <1>2 DEF Candidates
<1>3. CASE f = "code"
  BY <1>3 DEF Candidates
<1>4. CASE f = "value" /\ k \in ContextTriggers
  BY <1>4 DEF Candidates
<1>5. CASE f = "collection_name" /\ k \in CollectionLoads
  BY <1>5 DEF Candidates
<1>6. CASE /\ ~ (f = "text" /\ k \in {"send_text", "edit_message"})
           /\ ~ (f = "text" /\ k = "edit_or_send_text")
           /\ f # "code"
           /\ ~ (f = "value" /\ k \in ContextTriggers)
           /\ ~ (f = "collection_name" /\ k \in CollectionLoads)
  BY <1>6 DEF Candidates
<1> QED
  BY <1>1, <1>2, <1>3, <1>4, <1>5, <1>6

\* What a field is first looked up by.
HeadsOf(k, f) ==
    IF f = "text" /\ k \in {"send_text", "edit_message"} THEN {"messageText", "newText"}
    ELSE IF f = "text" /\ k = "edit_or_send_text" THEN {"messageText", "dynamicMessageText"}
    ELSE IF f = "code" THEN {"jsCode", "code"}
    ELSE IF f = "value" /\ k \in ContextTriggers THEN {"context"}
    ELSE IF f = "collection_name" /\ k \in CollectionLoads THEN {"collection"}
    ELSE {f}

LEMMA CandidateForm ==
    ASSUME NEW k, NEW f, NEW c \in Range(Candidates(k, f))
    PROVE  /\ c[1] \in HeadsOf(k, f)
           /\ c = <<c[1]>> \/ c = <<c[1], c[2]>>
<1>1. CASE f = "text" /\ k \in {"send_text", "edit_message"}
  BY <1>1 DEF Candidates, HeadsOf, Range
<1>2. CASE f = "text" /\ k = "edit_or_send_text"
  BY <1>2 DEF Candidates, HeadsOf, Range
<1>3. CASE f = "code"
  BY <1>3 DEF Candidates, HeadsOf, Range
<1>4. CASE f = "value" /\ k \in ContextTriggers
  BY <1>4 DEF Candidates, HeadsOf, Range
<1>5. CASE f = "collection_name" /\ k \in CollectionLoads
  BY <1>5 DEF Candidates, HeadsOf, Range
<1>6. CASE /\ ~ (f = "text" /\ k \in {"send_text", "edit_message"})
           /\ ~ (f = "text" /\ k = "edit_or_send_text")
           /\ f # "code"
           /\ ~ (f = "value" /\ k \in ContextTriggers)
           /\ ~ (f = "collection_name" /\ k \in CollectionLoads)
  <2>1. Candidates(k, f) = << <<f>> >> /\ HeadsOf(k, f) = {f}
    BY <1>6 DEF Candidates, HeadsOf
  <2> QED
    BY <2>1 DEF Range
<1> QED
  BY <1>1, <1>2, <1>3, <1>4, <1>5, <1>6

\* Two fields of a kind share no key.
LEMMA HeadsAreApart ==
    ASSUME NEW k \in DOMAIN Catalog, NEW f \in Catalog[k], NEW g \in Catalog[k], f # g
    PROVE  HeadsOf(k, f) \cap HeadsOf(k, g) = {}
<1>1. f \notin Keys /\ g \notin Keys
  BY KeysAreNoFields
<1>2. k \in ContextTriggers => f # "context" /\ g # "context"
  BY KindsInCatalog
<1>3. k \in CollectionLoads => f # "collection" /\ g # "collection"
  BY KindsInCatalog
<1>4. ContextTriggers \cap CollectionLoads = {}
  BY DEF ContextTriggers, CollectionLoads
<1> QED
  BY <1>1, <1>2, <1>3, <1>4 DEF HeadsOf, Keys

\* Paths that overlap begin with the same key.
LEMMA OverlapSharesHead ==
    ASSUME NEW p, NEW q,
           p = <<p[1]>> \/ p = <<p[1], p[2]>>,
           q = <<q[1]>> \/ q = <<q[1], q[2]>>,
           Overlap(p, q)
    PROVE  p[1] = q[1]
<1> DEFINE S == {p[1], p[2], q[1], q[2]}
<1>1. ASSUME NEW s, NEW x \in S, NEW y \in S, s = <<x>> \/ s = <<x, y>>
      PROVE  s \in Seq(S) /\ Len(s) \in 1 .. 2
  <2> HIDE DEF S
  <2>1. CASE s = <<x>>
    BY <2>1
  <2>2. CASE s = <<x, y>>
    BY <2>2
  <2> QED
    BY <1>1, <2>1, <2>2
<1>3. p \in Seq(S) /\ q \in Seq(S) /\ Len(p) \in 1 .. 2 /\ Len(q) \in 1 .. 2
  BY <1>1
<1>2. ASSUME NEW s \in Seq(S), NEW t \in Seq(S), Len(s) \in 1 .. 2, Len(t) \in 1 .. 2, IsPrefix(s, t)
      PROVE  s[1] = t[1]
  <2>1. SubSeq(s, 1, Len(s)) = SubSeq(t, 1, Len(s)) /\ Len(s) <= Len(t)
    BY <1>2 DEF IsPrefix
  <2>2. SubSeq(s, 1, Len(s))[1] = s[1] /\ SubSeq(t, 1, Len(s))[1] = t[1]
    BY <1>2, <2>1
  <2> QED
    BY <2>1, <2>2
<1> HIDE DEF S
<1> QED
  BY <1>2, <1>3 DEF Overlap

LEMMA OverlapsItself ==
    ASSUME NEW p, p = <<p[1]>> \/ p = <<p[1], p[2]>>
    PROVE  Overlap(p, p)
<1>1. Len(p) \in Nat
  OBVIOUS
<1> QED
  BY <1>1 DEF Overlap, IsPrefix

LEMMA PathsAreApart ==
    ASSUME NEW k \in DOMAIN Catalog, NEW f \in Catalog[k], NEW g \in Catalog[k], f # g,
           NEW c \in Range(Candidates(k, f)), NEW d \in Range(Candidates(k, g))
    PROVE  c # d /\ ~ Overlap(c, d)
BY CandidateForm, HeadsAreApart, OverlapSharesHead

\* A field is written at the first of its places.
LEMMA PathIsCandidate ==
    ASSUME NEW k, NEW f
    PROVE  PathOf(k, f) \in Range(Candidates(k, f))
BY TwoCandidates DEF PathOf, Range

\* A field is found at the first of its places, or only at a later one.
LEMMA Finding ==
    ASSUME NEW k, NEW f, NEW data
    PROVE  /\ FoundAt(k, data, f) \subseteq Range(Candidates(k, f)) \cap DOMAIN data
           /\ PathOf(k, f) \in DOMAIN data => FoundAt(k, data, f) = {PathOf(k, f)}
           /\ Range(Candidates(k, f)) = {PathOf(k, f)} \cup Range(Tail(Candidates(k, f)))
<1>1. ASSUME NEW c, Candidates(k, f) = <<c>>
      PROVE  /\ FoundAt(k, data, f) = {c} \cap DOMAIN data
             /\ PathOf(k, f) = c
             /\ Range(Candidates(k, f)) = {c}
             /\ Range(Tail(Candidates(k, f))) = {}
  <2>1. \A h \in 1 .. 1 - 1 : FALSE
    OBVIOUS
  <2> QED
    BY <1>1, <2>1 DEF FoundAt, PathOf, Range
<1>2. ASSUME NEW c, NEW d, Candidates(k, f) = <<c, d>>
      PROVE  /\ FoundAt(k, data, f) = IF c \in DOMAIN data THEN {c} ELSE {d} \cap DOMAIN data
             /\ PathOf(k, f) = c
             /\ Range(Candidates(k, f)) = {c, d}
             /\ Range(Tail(Candidates(k, f))) = {d}
  <2> DEFINE place == <<c, d>>
             free(j) == \A h \in 1 .. j - 1 : place[h] \notin DOMAIN data
             J == {j \in DOMAIN place : place[j] \in DOMAIN data /\ free(j)}
  <2>1. DOMAIN place = {1, 2} /\ place[1] = c /\ place[2] = d
    OBVIOUS
  <2>2. free(1) /\ (free(2) <=> c \notin DOMAIN data)
    BY <2>1
  <2>3. J = (IF c \in DOMAIN data THEN {1} ELSE IF d \in DOMAIN data THEN {2} ELSE {})
    BY <2>1, <2>2
  <2>4. FoundAt(k, data, f) = {place[i] : i \in J}
    BY <1>2 DEF FoundAt
  <2>5. PathOf(k, f) = c /\ Range(Candidates(k, f)) = {c, d} /\ Range(Tail(Candidates(k, f))) = {d}
    BY <1>2 DEF PathOf, Range
  <2> HIDE DEF J, place
  <2> QED
    BY <2>1, <2>3, <2>4, <2>5
<1> QED
  BY <1>1, <1>2, TwoCandidates

-----------------------------------------------------------------------------
(***************************************************************************)
(* What reading a node gives.                                              *)
(***************************************************************************)
\* No field could be read from the data a step carries along: its place is free.
PlacesAreFree(k, data) == \A f \in Catalog[k] : PathOf(k, f) \notin DOMAIN data

\* What a field is read as where nothing is found.
Missing(k, f) == IF f = "value" /\ k \in ContextTriggers THEN Blank ELSE Default(f)

StepShape(k, s) ==
    /\ s = [fields |-> s.fields, data |-> s.data]
    /\ s.fields = [f \in FieldNames(k) |-> s.fields[f]]

LEMMA CandidatesAreClaimed ==
    ASSUME NEW k, NEW f \in Catalog[k]
    PROVE  Range(Candidates(k, f)) \subseteq Claimed(k) /\ PathOf(k, f) \in Claimed(k)
BY PathIsCandidate DEF Claimed

\* Fields take their values out of the data, and nothing else.
LEMMA Popping ==
    ASSUME NEW k, NEW data
    PROVE  /\ PlacesAreFree(k, PopFields(k, data))
           /\ \A p \in DOMAIN data \ Claimed(k) :
                 p \in DOMAIN PopFields(k, data) /\ PopFields(k, data)[p] = data[p]
<1> DEFINE found == UNION {FoundAt(k, data, f) : f \in Catalog[k]}
<1>1. PopFields(k, data) = [p \in DOMAIN data \ found |-> data[p]]
  BY DEF PopFields, Restrict
<1>2. ASSUME NEW f \in Catalog[k] PROVE PathOf(k, f) \notin DOMAIN data \ found
  BY Finding
<1>3. found \subseteq Claimed(k)
  BY Finding, CandidatesAreClaimed
<1> HIDE DEF found
<1> QED
  BY <1>1, <1>2, <1>3 DEF PlacesAreFree

LEMMA Reading ==
    ASSUME NEW k \in DOMAIN Catalog, NEW data
    PROVE  /\ StepShape(k, Import(k, data))
           /\ Import(k, data).data = PopFields(k, data)
           /\ \A f \in Catalog[k] :
                 /\ PathOf(k, f) \in DOMAIN data /\ data[PathOf(k, f)] # Null
                       => Import(k, data).fields[f] = data[PathOf(k, f)]
                 /\ Range(Candidates(k, f)) \cap DOMAIN data = {}
                       => Import(k, data).fields[f] = Missing(k, f)
<1> DEFINE found(f) == {data[p] : p \in FoundAt(k, data, f)} \ {Null}
           read == [f \in Catalog[k] |->
                      IF found(f) # {} THEN CHOOSE value \in found(f) : TRUE
                      ELSE IF f = "value" /\ k \in ContextTriggers THEN Blank ELSE Default(f)]
           loose == [f \in FieldNames(k) \ Catalog[k] |->
                       IF read["selected_callbacks"] = "one" THEN "one" ELSE Unset]
<1>1. Import(k, data) = [fields |-> Over(read, loose), data |-> PopFields(k, data)]
  BY DEF Import
<1>2. Catalog[k] \subseteq FieldNames(k)
  BY DEF FieldNames
<1>3. DOMAIN read = Catalog[k] /\ DOMAIN loose = FieldNames(k) \ Catalog[k]
  OBVIOUS
<1>4. ASSUME NEW f \in Catalog[k]
      PROVE  /\ PathOf(k, f) \in DOMAIN data /\ data[PathOf(k, f)] # Null => read[f] = data[PathOf(k, f)]
             /\ Range(Candidates(k, f)) \cap DOMAIN data = {} => read[f] = Missing(k, f)
  <2>1. ASSUME PathOf(k, f) \in DOMAIN data, data[PathOf(k, f)] # Null PROVE read[f] = data[PathOf(k, f)]
    <3>1. found(f) = {data[PathOf(k, f)]}
      BY <2>1, Finding
    <3> QED
      BY <3>1
  <2>2. ASSUME Range(Candidates(k, f)) \cap DOMAIN data = {} PROVE read[f] = Missing(k, f)
    <3>1. found(f) = {}
      BY <2>2, Finding
    <3> QED
      BY <3>1 DEF Missing
  <2> QED
    BY <2>1, <2>2
<1> HIDE DEF read, loose
<1>5. Over(read, loose) = [f \in FieldNames(k) |-> Over(read, loose)[f]]
      /\ \A f \in Catalog[k] : Over(read, loose)[f] = read[f]
  BY <1>2, <1>3 DEF Over
<1> QED
  BY <1>1, <1>4, <1>5 DEF StepShape

-----------------------------------------------------------------------------
(***************************************************************************)
(* What a step is written as.                                              *)
(***************************************************************************)
LEMMA Nesting ==
    ASSUME NEW data, NEW entries
    PROVE  /\ DOMAIN entries \subseteq DOMAIN SetNested(data, entries)
           /\ \A p \in DOMAIN entries : SetNested(data, entries)[p] = entries[p]
           /\ \A p \in DOMAIN SetNested(data, entries) \ DOMAIN entries :
                 p \in DOMAIN data /\ SetNested(data, entries)[p] = data[p]
           /\ \A p \in DOMAIN data : (\A q \in DOMAIN entries : ~ Overlap(p, q)) /\ p \notin DOMAIN entries =>
                 p \in DOMAIN SetNested(data, entries) /\ SetNested(data, entries)[p] = data[p]
BY DEF SetNested, Over, Restrict

LEMMA EntryOfField ==
    ASSUME NEW k \in DOMAIN Catalog, NEW fields
    PROVE  /\ \A q \in DOMAIN Entries(k, fields) :
                 \E f \in Catalog[k] : Written(f, fields[f]) /\ q = PathOf(k, f)
           /\ \A f \in Catalog[k] : Written(f, fields[f]) =>
                 /\ PathOf(k, f) \in DOMAIN Entries(k, fields)
                 /\ Entries(k, fields)[PathOf(k, f)] = fields[f]
<1> DEFINE written == {f \in Catalog[k] : Written(f, fields[f])}
<1>1. Entries(k, fields) = [p \in {PathOf(k, f) : f \in written} |->
                              fields[CHOOSE f \in written : PathOf(k, f) = p]]
  BY DEF Entries
<1>2. ASSUME NEW f \in written PROVE (CHOOSE g \in written : PathOf(k, g) = PathOf(k, f)) = f
  BY PathsAreApart, PathIsCandidate
<1> QED
  BY <1>1, <1>2

\* Where compile_step_data adds a value that is no field's.
Filled(k, payload, s) ==
    IF /\ k = "callback_button_trigger" /\ s.fields.value # Unset
       /\ \A p \in DOMAIN payload : p[1] # "selected_callbacks"
    THEN [p \in {<<"selected_callbacks">>} |-> "one"]
    ELSE IF k \in ContextTriggers /\ \A p \in DOMAIN payload : p[1] # "context"
    THEN [p \in {<<"context", "value">>} |-> Blank]
    ELSE [p \in {} |-> Blank]

LEMMA WritingAddsEntries ==
    ASSUME NEW k, NEW s
    PROVE  LET payload == SetNested(s.data, Entries(k, s.fields))
           IN  \/ Compile(k, s) = SetNested(payload, Filled(k, payload, s))
               \/ Compile(k, s) = payload /\ DOMAIN Filled(k, payload, s) = {}
<1> DEFINE payload == SetNested(s.data, Entries(k, s.fields))
           callback == /\ k = "callback_button_trigger" /\ s.fields.value # Unset
                       /\ \A p \in DOMAIN payload : p[1] # "selected_callbacks"
           context == k \in ContextTriggers /\ \A p \in DOMAIN payload : p[1] # "context"
<1>1. k = "callback_button_trigger" => k \notin ContextTriggers
  BY DEF ContextTriggers
<1>2. Compile(k, s) = CASE callback -> SetNested(payload, [p \in {<<"selected_callbacks">>} |-> "one"])
                        [] context  -> SetNested(payload, [p \in {<<"context", "value">>} |-> Blank])
                        [] OTHER    -> payload
  BY DEF Compile
<1>3. Filled(k, payload, s) = IF callback THEN [p \in {<<"selected_callbacks">>} |-> "one"]
                              ELSE IF context THEN [p \in {<<"context", "value">>} |-> Blank]
                              ELSE [p \in {} |-> Blank]
  BY DEF Filled
<1> HIDE DEF payload
<1>4. callback => ~ context
  BY <1>1
<1> HIDE DEF callback, context
<1>5. CASE callback
  BY <1>2, <1>3, <1>4, <1>5 DEF payload
<1>6. CASE context
  BY <1>2, <1>3, <1>4, <1>6 DEF payload
<1>7. CASE ~ callback /\ ~ context
  BY <1>2, <1>3, <1>7 DEF payload
<1> QED
  BY <1>5, <1>6, <1>7

\* What is filled in is at the place of a field that was not written.
LEMMA FilledPlaces ==
    ASSUME NEW k \in DOMAIN Catalog, NEW payload, NEW s, NEW q \in DOMAIN Filled(k, payload, s)
    PROVE  \E f \in Catalog[k] :
              /\ q = PathOf(k, f) /\ q \notin DOMAIN payload
              /\ \/ f = "selected_callbacks" /\ k = "callback_button_trigger" /\ s.fields.value # Unset
                 \/ f = "value" /\ k \in ContextTriggers /\ Filled(k, payload, s)[q] = Blank
<1>1. CASE k = "callback_button_trigger"
  <2>1. k \notin ContextTriggers
    BY <1>1 DEF ContextTriggers
  <2>2. q = <<"selected_callbacks">> /\ s.fields.value # Unset /\ q \notin DOMAIN payload
    BY <1>1, <2>1 DEF Filled
  <2>3. PathOf(k, "selected_callbacks") = <<"selected_callbacks">> /\ "selected_callbacks" \in Catalog[k]
    BY <1>1, KindsInCatalog DEF PathOf, Candidates
  <2> QED
    BY <1>1, <2>2, <2>3
<1>2. CASE k # "callback_button_trigger"
  <2>1. /\ k \in ContextTriggers /\ q = <<"context", "value">> /\ q \notin DOMAIN payload
        /\ Filled(k, payload, s)[q] = Blank
    BY <1>2 DEF Filled
  <2>2. PathOf(k, "value") = <<"context", "value">> /\ "value" \in Catalog[k]
    BY <2>1, KindsInCatalog DEF PathOf, Candidates
  <2> QED
    BY <2>1, <2>2
<1> QED
  BY <1>1, <1>2

\* A field that has a value is written at its place.
LEMMA WritingAField ==
    ASSUME NEW k \in DOMAIN Catalog, NEW s, NEW f \in Catalog[k], Written(f, s.fields[f])
    PROVE  /\ PathOf(k, f) \in DOMAIN Compile(k, s)
           /\ Compile(k, s)[PathOf(k, f)] = s.fields[f]
<1> DEFINE payload == SetNested(s.data, Entries(k, s.fields))
           more == Filled(k, payload, s)
           place == PathOf(k, f)
<1>1. place \in DOMAIN payload /\ payload[place] = s.fields[f]
  <2>1. /\ place \in DOMAIN Entries(k, s.fields)
        /\ Entries(k, s.fields)[place] = s.fields[f]
    BY EntryOfField
  <2> QED
    BY <2>1, Nesting
<1> HIDE DEF payload
<1>2. ASSUME NEW q \in DOMAIN more PROVE q # place /\ ~ Overlap(place, q)
  BY <1>1, FilledPlaces, PathsAreApart, PathIsCandidate
<1>3. place \in DOMAIN SetNested(payload, more) /\ SetNested(payload, more)[place] = payload[place]
  BY <1>1, <1>2, Nesting
<1> QED
  BY <1>1, <1>3, WritingAddsEntries DEF payload

\* Where a field that has none would be looked for, there is nothing but what was filled in.
LEMMA WritingNoField ==
    ASSUME NEW k \in DOMAIN Catalog, NEW s, NEW f \in Catalog[k], ~ Written(f, s.fields[f]),
           PlacesAreFree(k, s.data),
           Range(Tail(Candidates(k, f))) \cap DOMAIN s.data = {},
           ~ (f = "selected_callbacks" /\ k = "callback_button_trigger" /\ s.fields.value # Unset)
    PROVE  \/ Range(Candidates(k, f)) \cap DOMAIN Compile(k, s) = {}
           \/ /\ f = "value" /\ k \in ContextTriggers
              /\ PathOf(k, f) \in DOMAIN Compile(k, s) /\ Compile(k, s)[PathOf(k, f)] = Blank
<1> DEFINE payload == SetNested(s.data, Entries(k, s.fields))
           more == Filled(k, payload, s)
<1>1. Range(Candidates(k, f)) \cap DOMAIN payload = {}
  <2>1. Range(Candidates(k, f)) \cap DOMAIN s.data = {}
    BY Finding DEF PlacesAreFree
  <2>2. ASSUME NEW q \in DOMAIN Entries(k, s.fields) PROVE q \notin Range(Candidates(k, f))
    <3>1. PICK g \in Catalog[k] : Written(g, s.fields[g]) /\ q = PathOf(k, g)
      BY EntryOfField
    <3> QED
      BY <3>1, PathsAreApart, PathIsCandidate
  <2> QED
    BY <2>1, <2>2, Nesting
<1>2. CASE DOMAIN more \cap Range(Candidates(k, f)) = {}
  <2>1. Range(Candidates(k, f)) \cap DOMAIN SetNested(payload, more) = {}
    BY <1>1, <1>2, Nesting
  <2> QED
    BY <1>1, <2>1, WritingAddsEntries
<1>3. ASSUME NEW q \in DOMAIN more \cap Range(Candidates(k, f))
      PROVE  /\ f = "value" /\ k \in ContextTriggers
             /\ PathOf(k, f) \in DOMAIN Compile(k, s) /\ Compile(k, s)[PathOf(k, f)] = Blank
  <2>1. PICK g \in Catalog[k] :
              /\ q = PathOf(k, g)
              /\ \/ g = "selected_callbacks" /\ k = "callback_button_trigger" /\ s.fields.value # Unset
                 \/ g = "value" /\ k \in ContextTriggers /\ more[q] = Blank
    BY <1>3, FilledPlaces
  <2>2. g = f
    BY <2>1, <1>3, PathsAreApart, PathIsCandidate
  <2>3. f = "value" /\ k \in ContextTriggers /\ more[q] = Blank /\ q = PathOf(k, f)
    BY <2>1, <2>2
  <2>4. Compile(k, s) = SetNested(payload, more)
    BY <1>3, WritingAddsEntries
  <2> HIDE DEF payload, more
  <2> QED
    BY <1>3, <2>3, <2>4, Nesting
<1> QED
  BY <1>2, <1>3

\* Entries that belong to no field are written as the step carried them.
LEMMA WritingStrays ==
    ASSUME NEW k \in DOMAIN Catalog, NEW s, NEW p, \A q \in Claimed(k) : ~ Overlap(p, q)
    PROVE  /\ p \in DOMAIN Compile(k, s) <=> p \in DOMAIN s.data
           /\ p \in DOMAIN s.data => Compile(k, s)[p] = s.data[p]
<1> DEFINE payload == SetNested(s.data, Entries(k, s.fields))
           more == Filled(k, payload, s)
<1>1. p \notin Claimed(k)
  <2>1. ASSUME p \in Claimed(k) PROVE FALSE
    <3>1. PICK f \in Catalog[k] : p \in Range(Candidates(k, f))
      BY <2>1 DEF Claimed
    <3>2. Overlap(p, p)
      BY <3>1, CandidateForm, OverlapsItself
    <3> QED
      BY <2>1, <3>2
  <2> QED
    BY <2>1
<1>2. DOMAIN Entries(k, s.fields) \subseteq Claimed(k) /\ DOMAIN more \subseteq Claimed(k)
  <2>1. ASSUME NEW q \in DOMAIN Entries(k, s.fields) PROVE q \in Claimed(k)
    <3>1. PICK g \in Catalog[k] : q = PathOf(k, g)
      BY EntryOfField
    <3> QED
      BY <3>1, CandidatesAreClaimed
  <2>2. ASSUME NEW q \in DOMAIN more PROVE q \in Claimed(k)
    BY FilledPlaces, CandidatesAreClaimed
  <2> QED
    BY <2>1, <2>2
<1>3. /\ p \in DOMAIN payload <=> p \in DOMAIN s.data
      /\ p \in DOMAIN s.data => payload[p] = s.data[p]
  BY <1>1, <1>2, Nesting
<1>4. /\ p \in DOMAIN SetNested(payload, more) <=> p \in DOMAIN payload
      /\ p \in DOMAIN payload => SetNested(payload, more)[p] = payload[p]
  <2> HIDE DEF payload, more
  <2> QED
    BY <1>1, <1>2, Nesting
<1> QED
  BY <1>3, <1>4, WritingAddsEntries

-----------------------------------------------------------------------------
(***************************************************************************)
(* The inductive invariant: the step has the fields of its kind, no field  *)
(* has a value of an earlier session left in its place, and what belongs   *)
(* to no field is in the step as it is in the file.                        *)
(***************************************************************************)
DataInvariant ==
    /\ kind \in DOMAIN Catalog
    /\ StepShape(kind, step)
    /\ PlacesAreFree(kind, step.data)
    /\ \A p \in DOMAIN file : Stray(p) => p \in DOMAIN step.data /\ step.data[p] = file[p]

\* Reading a node establishes it.
LEMMA ReadingKeeps ==
    ASSUME NEW k \in DOMAIN Catalog, NEW data
    PROVE  /\ StepShape(k, Import(k, data))
           /\ PlacesAreFree(k, Import(k, data).data)
           /\ \A p \in DOMAIN data : (\A q \in Claimed(k) : ~ Overlap(p, q)) =>
                 p \in DOMAIN Import(k, data).data /\ Import(k, data).data[p] = data[p]
<1>1. ASSUME NEW p, \A q \in Claimed(k) : ~ Overlap(p, q) PROVE p \notin Claimed(k)
  <2>1. ASSUME p \in Claimed(k) PROVE FALSE
    <3>1. PICK f \in Catalog[k] : p \in Range(Candidates(k, f))
      BY <2>1 DEF Claimed
    <3>2. Overlap(p, p)
      BY <3>1, CandidateForm, OverlapsItself
    <3> QED
      BY <1>1, <2>1, <3>2
  <2> QED
    BY <2>1
<1> QED
  BY <1>1, Reading, Popping

\* An edit writes the entries that belong to no field as the edited step has them.
LEMMA EditKeeps ==
    ASSUME NEW new, DataInvariant, Edit(new), StepShape(kind, new), PlacesAreFree(kind, new.data)
    PROVE  DataInvariant'
<1>1. step' = new /\ file' = Compile(kind, new) /\ kind' = kind
  BY DEF Edit
<1>2. kind \in DOMAIN Catalog
  BY DEF DataInvariant
<1>3. ASSUME NEW p \in DOMAIN Compile(kind, new), \A q \in Claimed(kind) : ~ Overlap(p, q)
      PROVE  p \in DOMAIN new.data /\ new.data[p] = Compile(kind, new)[p]
  BY <1>2, <1>3, WritingStrays
<1> QED
  BY <1>1, <1>2, <1>3 DEF DataInvariant, Stray

LEMMA PatchedStep ==
    ASSUME DataInvariant, NEW f \in FieldNames(kind), NEW value
    PROVE  LET new == [step EXCEPT !.fields[f] = Merged(f, @, value)]
           IN  StepShape(kind, new) /\ new.data = step.data
<1>1. /\ step = [fields |-> step.fields, data |-> step.data]
      /\ step.fields = [g \in FieldNames(kind) |-> step.fields[g]]
  BY DEF DataInvariant, StepShape
<1> DEFINE new == [step EXCEPT !.fields[f] = Merged(f, @, value)]
           merged == [step.fields EXCEPT ![f] = Merged(f, @, value)]
<1>2. new = [fields |-> merged, data |-> step.data]
  BY <1>1
<1>3. merged = [g \in FieldNames(kind) |-> merged[g]]
  BY <1>1
<1> HIDE DEF merged
<1> QED
  BY <1>2, <1>3 DEF StepShape

LEMMA NewStepShape ==
    ASSUME NEW k, NEW f \in FieldNames(k), NEW value
    PROVE  LET new == [NewStep(k) EXCEPT !.fields[f] = value]
           IN  StepShape(k, new) /\ PlacesAreFree(k, new.data)
<1> DEFINE new == [NewStep(k) EXCEPT !.fields[f] = value]
           blank == [g \in FieldNames(k) |-> Default(g)]
           fields == [blank EXCEPT ![f] = value]
<1>1. new = [fields |-> fields, data |-> << >>]
  <2>1. NewStep(k) = [fields |-> blank, data |-> << >>]
    BY DEF NewStep
  <2> HIDE DEF blank
  <2> QED
    BY <2>1
<1>2. fields = [g \in FieldNames(k) |-> fields[g]]
  OBVIOUS
<1>3. DOMAIN << >> = {}
  OBVIOUS
<1> HIDE DEF fields
<1> QED
  BY <1>1, <1>2, <1>3 DEF StepShape, PlacesAreFree

\* The steps of a document keep their data apart from their fields, from session to
\* session (import_node, compile_step_data).
THEOREM DataIsKeptApart == Spec => []DataInvariant
<1>1. Init => DataInvariant
  BY ReadingKeeps DEF Init, DataInvariant, Stray
<1>2. DataInvariant /\ [Next]_vars => DataInvariant'
  <2> SUFFICES ASSUME DataInvariant, [Next]_vars PROVE DataInvariant'
    OBVIOUS
  <2>1. CASE Read
    BY <2>1, ReadingKeeps DEF Read, DataInvariant, Stray
  <2>2. CASE Patch
    <3>0. PICK f \in FieldNames(kind) : \E value \in Values(f) :
              Edit([step EXCEPT !.fields[f] = Merged(f, @, value)])
      BY <2>2 DEF Patch
    <3>1. PICK value \in Values(f) : Edit([step EXCEPT !.fields[f] = Merged(f, @, value)])
      BY <3>0
    <3> DEFINE new == [step EXCEPT !.fields[f] = Merged(f, @, value)]
    <3>2. StepShape(kind, new) /\ new.data = step.data
      BY PatchedStep
    <3>3. PlacesAreFree(kind, new.data)
      BY <3>2 DEF DataInvariant
    <3> HIDE DEF new
    <3>4. Edit(new)
      BY <3>1 DEF new
    <3> QED
      BY <3>2, <3>3, <3>4, EditKeeps
  <2>3. CASE Upsert
    <3>0. PICK f \in FieldNames(kind) : \E value \in Values(f) :
              Edit([NewStep(kind) EXCEPT !.fields[f] = value])
      BY <2>3 DEF Upsert
    <3>1. PICK value \in Values(f) : Edit([NewStep(kind) EXCEPT !.fields[f] = value])
      BY <3>0
    <3> DEFINE new == [NewStep(kind) EXCEPT !.fields[f] = value]
    <3>2. StepShape(kind, new) /\ PlacesAreFree(kind, new.data)
      BY NewStepShape
    <3> HIDE DEF new
    <3>3. Edit(new)
      BY <3>1 DEF new
    <3> QED
      BY <3>2, <3>3, EditKeeps
  <2>4. CASE UNCHANGED vars
    BY <2>4 DEF vars, DataInvariant, Stray
  <2> QED
    BY <2>1, <2>2, <2>3, <2>4 DEF Next
<1> QED
  BY <1>1, <1>2, PTL DEF Spec

\* What a field says is what the next session reads, for every kind of the catalog
\* (compile_step_data, import_node).
LEMMA FieldIsReadBack ==
    ASSUME DataInvariant, ~ Shadowed(step), NEW f \in Catalog[kind]
    PROVE  Meaning(f, Import(kind, Compile(kind, step)).fields[f]) = Meaning(f, step.fields[f])
<1> DEFINE data == Compile(kind, step)
           place == PathOf(kind, f)
           again == Import(kind, data).fields[f]
<1>1. kind \in DOMAIN Catalog /\ PlacesAreFree(kind, step.data)
  BY DEF DataInvariant
<1>2. /\ place \in DOMAIN data /\ data[place] # Null => again = data[place]
      /\ Range(Candidates(kind, f)) \cap DOMAIN data = {} => again = Missing(kind, f)
  BY <1>1, Reading
<1>3. CASE Written(f, step.fields[f])
  <2>1. place \in DOMAIN data /\ data[place] = step.fields[f]
    BY <1>1, <1>3, WritingAField
  <2>2. step.fields[f] # Null
    BY <1>3 DEF Written, Present, Null, Blank, Empty
  <2> QED
    BY <1>2, <2>1, <2>2
<1>4. CASE ~ Written(f, step.fields[f])
  <2>1. Meaning(f, step.fields[f]) = Missing(kind, f)
    BY <1>4 DEF Meaning, Missing
  <2>2. /\ Range(Tail(Candidates(kind, f))) \cap DOMAIN step.data = {}
        /\ ~ (f = "selected_callbacks" /\ kind = "callback_button_trigger" /\ step.fields.value # Unset)
    BY <1>4 DEF Shadowed
  <2>3. again = Missing(kind, f)
    <3>1. CASE Range(Candidates(kind, f)) \cap DOMAIN data = {}
      BY <1>2, <3>1
    <3>2. CASE f = "value" /\ kind \in ContextTriggers /\ place \in DOMAIN data /\ data[place] = Blank
      <4>1. Blank # Null /\ Missing(kind, f) = Blank
        BY <3>2 DEF Blank, Null, Missing
      <4> QED
        BY <1>2, <3>2, <4>1
    <3> QED
      BY <1>1, <1>4, <2>2, <3>1, <3>2, WritingNoField
  <2>4. Meaning(f, Missing(kind, f)) = Missing(kind, f)
    BY DEF Meaning, Missing
  <2> QED
    BY <2>1, <2>3, <2>4
<1> QED
  BY <1>3, <1>4

\* What a session writes into a field of a node the next one finds there, and what it
\* leaves out is not found (compile_step_data, import_node).
THEOREM FieldsAreReadBack == Spec => []ReadsBackWhatWasWritten
<1>1. DataInvariant => ReadsBackWhatWasWritten
  BY FieldIsReadBack DEF ReadsBackWhatWasWritten
<1> QED
  BY <1>1, DataIsKeptApart, PTL

\* Patches and new sessions keep what belongs to no field (patch_step_block_tool,
\* load_flow_document_from_target).
THEOREM StraysSurvive == Spec => StrayDataSurvives
<1>1. DataInvariant /\ [Next]_vars =>
        (~ Upsert => \A p \in DOMAIN file : Stray(p) => p \in DOMAIN file' /\ file'[p] = file[p])
  <2> SUFFICES ASSUME DataInvariant, [Next]_vars, ~ Upsert, NEW p \in DOMAIN file, Stray(p)
               PROVE  p \in DOMAIN file' /\ file'[p] = file[p]
    OBVIOUS
  <2>1. CASE UNCHANGED file
    BY <2>1
  <2>2. CASE Patch
    <3>0. PICK f \in FieldNames(kind) : \E value \in Values(f) :
              Edit([step EXCEPT !.fields[f] = Merged(f, @, value)])
      BY <2>2 DEF Patch
    <3>1. PICK value \in Values(f) : Edit([step EXCEPT !.fields[f] = Merged(f, @, value)])
      BY <3>0
    <3> DEFINE new == [step EXCEPT !.fields[f] = Merged(f, @, value)]
    <3>2. new.data = step.data
      BY PatchedStep
    <3>3. file' = Compile(kind, new)
      BY <3>1 DEF Edit
    <3> HIDE DEF new
    <3>4. p \in DOMAIN step.data /\ step.data[p] = file[p]
      BY DEF DataInvariant
    <3>5. p \in DOMAIN Compile(kind, new) /\ Compile(kind, new)[p] = new.data[p]
      BY <3>2, <3>4, WritingStrays DEF DataInvariant, Stray
    <3> QED
      BY <3>2, <3>3, <3>4, <3>5
  <2> QED
    BY <2>1, <2>2 DEF Next, Read, vars
<1> QED
  BY <1>1, DataIsKeptApart, PTL DEF Spec, StrayDataSurvives
=============================================================================
