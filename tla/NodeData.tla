------------------------------ MODULE NodeData ------------------------------
(***************************************************************************)
(* The fields of a step and the data of its node: the catalog of native    *)
(* kinds (dsl/catalog.py), compile_step_data, which writes the fields, and *)
(* import_node, which reads them back.  What a field is called and where   *)
(* it is written differ, some fields are read from several places, empty   *)
(* values are not written, and data that belongs to no field is kept.      *)
(*                                                                         *)
(* One step is followed through edits, each of which writes the file, and  *)
(* through sessions, each of which begins with reading it.                 *)
(***************************************************************************)
EXTENDS Naturals, Sequences, SequencesExt, FiniteSetsExt, Functions

CONSTANTS
    MaxLeaves,      \* bound: entries in the data of a node no tool has written yet
    MaxEdits        \* bound: edits of the step

ASSUME ConstantsAssumption == MaxLeaves \in Nat /\ MaxEdits \in Nat

(***************************************************************************)
(* Values: "one" and "many" are a scalar, a dict, or a list of one and of  *)
(* several elements; "blank" is the empty string.                          *)
(***************************************************************************)
Unset   == "unset"                  \* None
Empty   == "empty"                  \* [] or {}
Null    == "null"                   \* null in the file
Blank   == "blank"
Present == {"one", "many", Blank}

\* f where it is defined, g elsewhere.  (@@ has no definition a proof could expand.)
Over(f, g) == [x \in DOMAIN f \cup DOMAIN g |-> IF x \in DOMAIN f THEN f[x] ELSE g[x]]

(***************************************************************************)
(* The catalog: the fields of each kind.                                   *)
(***************************************************************************)
CommonMessage == {"keyboard", "recipients", "disable_notification", "dynamic_messages"}

TriggerFields ==
    [command_trigger          |-> {"command", "global_flag", "with_args"},
     message_trigger          |-> {"message_type", "filter", "value", "state"},
     callback_query_trigger   |-> {"filter", "value", "state"},
     callback_button_trigger  |-> {"selected_callbacks", "state"},
     reply_button_trigger     |-> {"buttons", "state"},
     external_webhook_trigger |-> {"provider"},
     cron_trigger             |-> {"schedule", "enabled", "target_chat_ids"}]

MediaFields(source, fileId, url) == {source, fileId, url, "uploaded_file_uuid"} \cup CommonMessage

SendFields ==
    [send_text        |-> {"text", "parse_mode", "disable_web_page_preview"} \cup CommonMessage,
     send_photo       |-> MediaFields("photo_source_type", "photo_file_id", "photo_url") \cup {"caption"},
     send_video       |-> MediaFields("video_source_type", "video_file_id", "video_url") \cup {"caption"},
     send_audio       |-> MediaFields("audio_source_type", "audio_file_id", "audio_url") \cup {"caption"},
     send_file        |-> {"file_source_type", "file_id", "file_url", "uploaded_file_uuid",
                           "caption"} \cup CommonMessage,
     send_animation   |-> MediaFields("animation_source_type", "animation_file_id", "animation_url") \cup {"caption", "parse_mode", "duration"},
     send_voice       |-> MediaFields("voice_source_type", "voice_file_id", "voice_url") \cup {"caption", "parse_mode", "duration"},
     send_video_note  |-> MediaFields("video_note_source_type", "video_note_file_id", "video_note_url") \cup {"duration", "length"},
     send_location    |-> {"latitude", "longitude", "live_period", "heading",
                           "horizontal_accuracy", "proximity_alert_radius"} \cup CommonMessage,
     send_contact     |-> {"phone_number", "first_name", "last_name", "v_card"} \cup CommonMessage,
     send_poll        |-> {"question", "options", "type", "is_anonymous",
                           "allows_multiple_answers", "correct_option_id", "explanation",
                           "explanation_parse_mode", "open_period", "is_closed"} \cup CommonMessage,
     send_sticker     |-> MediaFields("sticker_source_type", "sticker_file_id", "sticker_url"),
     send_media_group |-> {"media_items"} \cup (CommonMessage \ {"keyboard"}),
     send_venue       |-> {"latitude", "longitude", "title", "address", "foursquare_id",
                           "foursquare_type"} \cup CommonMessage,
     send_dice        |-> {"emoji"} \cup CommonMessage]

MessageFields ==
    [edit_message       |-> {"text", "parse_mode", "keyboard", "disable_web_page_preview",
                             "dynamic_messages", "target_node_id", "message_id_source"},
     edit_or_send_text  |-> {"text", "parse_mode", "disable_web_page_preview"} \cup CommonMessage,
     delete_message     |-> {"delete_from_context", "target_node_id"},
     forward_message    |-> {"recipients", "disable_notification"},
     copy_message       |-> {"from_chat_id", "message_id", "caption", "parse_mode"}
                              \cup (CommonMessage \ {"dynamic_messages"}),
     pin_message        |-> {"message_id", "disable_notification"},
     unpin_message      |-> {"message_id", "unpin_all"},
     unpin_all_messages |-> {},
     chat_action        |-> {"action"},
     callback_query_answer |-> {"callback_query_id", "text", "show_alert", "url", "cache_time"},
     answer_inline_query   |-> {"results", "cache_time", "is_personal"}]

LogicFields ==
    [check_membership |-> {"channels", "channel_id", "channel_username"},
     if_condition     |-> {"branches", "conditions", "operator"},
     else_if          |-> {"conditions", "operator"},
     else             |-> {},
     delay            |-> {"delay", "delay_seconds", "duration"},
     scheduler        |-> {"scheduled_date_time", "date", "time", "timestamp", "delay_seconds",
                           "year", "month", "day", "hour", "minute", "second",
                           "target_node_id", "recipients"},
     random           |-> {"options"},
     variable         |-> {"operation", "variable_name", "value", "increment", "decrement",
                           "json_string"},
     for_loop         |-> {"data_key", "filters", "item_variable", "loop_id", "loop_mode",
                           "range_start", "range_end", "range_step", "timeout"},
     for_loop_continue |-> {"loop_id"}]

ServiceFields ==
    [http_request  |-> {"url", "method", "headers", "body", "response_variable",
                        "store_headers", "timeout"},
     send_to_admin |-> {},
     custom_code   |-> {"code", "lua_code", "timeout"},
     state         |-> {"state_key", "state_type", "custom_type", "collection_key",
                        "field_name", "value", "index", "context_key"},
     collection    |-> {"collection_name", "field_mappings"},
     load_collection_item |-> {"collection_name", "context_key", "filters"},
     load_collection_list |-> {"collection_name", "context_key", "filters", "limit", "skip"},
     update_collection    |-> {"collection_name", "filters", "field_mappings"},
     delete_collection    |-> {"collection_name", "filters"},
     download      |-> {"key", "uuid", "file", "filetype", "filesize"},
     cron          |-> {"schedule", "enabled"},
     subflow       |-> {"flow", "slug", "params"},
     subflow_exit  |-> {"output"}]

Catalog == Over(TriggerFields, Over(SendFields, Over(MessageFields, Over(LogicFields, ServiceFields))))

(***************************************************************************)
(* Where a field is written (export_path) and, in order, where it is       *)
(* looked for (import_candidates).  A field that is only respelled, as     *)
(* parse_mode in parseMode, keeps its name here: the spellings of one kind *)
(* are distinct.                                                           *)
(***************************************************************************)
ContextTriggers == {"message_trigger", "callback_query_trigger"}
CollectionLoads == {"load_collection_item", "load_collection_list"}

Candidates(kind, f) ==
    CASE f = "text" /\ kind \in {"send_text", "edit_message"} -> << <<"messageText">>, <<"newText">> >>
      [] f = "text" /\ kind = "edit_or_send_text" -> << <<"messageText">>, <<"dynamicMessageText">> >>
      [] f = "code"                               -> << <<"jsCode">>, <<"code">> >>
      [] f = "value" /\ kind \in ContextTriggers  -> << <<"context", "value">> >>
      [] f = "collection_name" /\ kind \in CollectionLoads -> << <<"collection", "name">> >>
      [] OTHER                                    -> << <<f>> >>

PathOf(kind, f) == Candidates(kind, f)[1]
Claimed(kind)   == UNION {Range(Candidates(kind, f)) : f \in Catalog[kind]}

\* The fields whose value is a list, and is never None, or a dict.
Lists == {"buttons", "dynamic_messages", "filters", "conditions", "branches", "options",
          "selected_callbacks", "target_chat_ids", "media_items", "results", "channels"}
Dicts == {"keyboard", "recipients", "state", "field_mappings", "flow", "params", "headers"}

\* callback_button_trigger has a value beside its fields; it is not written.
FieldNames(kind) ==
    Catalog[kind] \cup (IF kind = "callback_button_trigger" THEN {"value"} ELSE {})

Default(f) == IF f \in Lists THEN Empty ELSE Unset

\* An empty keyboard is an object of its own: it is written.
Written(f, value) == value \in Present \/ (f = "keyboard" /\ value = Empty)
-----------------------------------------------------------------------------
(***************************************************************************)
(* The data of a node, and the data a step carries along, are functions    *)
(* from leaf paths to values.                                              *)
(***************************************************************************)
Overlap(p, q) == IsPrefix(p, q) \/ IsPrefix(q, p)

\* Faulty: the parents of the paths are replaced.
SetParents(data, entries) ==
    Over(entries, Restrict(data, {p \in DOMAIN data : \A q \in DOMAIN entries : p[1] # q[1]}))

\* set_nested for each of the entries, none of which overlap: a value that is no dict
\* and stands in the way is replaced.
SetNested(data, entries) ==
    Over(entries, Restrict(data, {p \in DOMAIN data : \A q \in DOMAIN entries : ~Overlap(p, q)}))

NewStep(kind) == [fields |-> [f \in FieldNames(kind) |-> Default(f)], data |-> << >>]

\* The value of each field that has one, by the path it is written at.
Entries(kind, fields) ==
    LET written == {f \in Catalog[kind] : Written(f, fields[f])}
    IN  [p \in {PathOf(kind, f) : f \in written} |->
            fields[CHOOSE f \in written : PathOf(kind, f) = p]]

Compile(kind, step) ==                                   \* compile_step_data
    LET payload  == SetNested(step.data, Entries(kind, step.fields))
        NoKey(k) == \A p \in DOMAIN payload : p[1] # k
        callback == kind = "callback_button_trigger" /\ step.fields.value # Unset
                        /\ NoKey("selected_callbacks")
        context  == kind \in ContextTriggers /\ NoKey("context")
    IN  CASE callback -> SetNested(payload, [p \in {<<"selected_callbacks">>} |-> "one"])
          [] context  -> SetNested(payload, [p \in {<<"context", "value">>} |-> Blank])
          [] OTHER    -> payload

\* The place a field is found in, if any: the first of its candidates.
FoundAt(kind, data, f) ==
    LET place == Candidates(kind, f)
    IN  {place[i] : i \in {j \in DOMAIN place : /\ place[j] \in DOMAIN data
                                               /\ \A h \in 1 .. j - 1 : place[h] \notin DOMAIN data}}

\* Faulty: the values of the fields stay in the data of the step.
PopNothing(kind, data) == data

\* A field takes its value out of the data; of two places the second is left alone.
PopFields(kind, data) ==
    Restrict(data, DOMAIN data \ UNION {FoundAt(kind, data, f) : f \in Catalog[kind]})

Import(kind, data) ==                                    \* import_node
    LET found(f) == {data[p] : p \in FoundAt(kind, data, f)} \ {Null}
        read == [f \in Catalog[kind] |->
                    IF found(f) # {} THEN CHOOSE value \in found(f) : TRUE
                    ELSE IF f = "value" /\ kind \in ContextTriggers THEN Blank ELSE Default(f)]
        loose == [f \in FieldNames(kind) \ Catalog[kind] |->
                    IF read["selected_callbacks"] = "one" THEN "one" ELSE Unset]
    IN  [fields |-> Over(read, loose), data |-> PopFields(kind, data)]
-----------------------------------------------------------------------------
VARIABLES
    kind,           \* of the step; it never changes
    step,           \* the step in the document being edited
    file,           \* the data of its node in the flow file
    edits

vars == <<kind, step, file, edits>>

\* Entries that belong to no field, some of them beside or above one that does.
Strays(k) ==
    {<<"other">>} \cup (IF k \in ContextTriggers THEN {<<"context">>, <<"context", "other">>} ELSE {})
                  \cup (IF k \in CollectionLoads THEN {<<"collection", "other">>} ELSE {})

\* Data that was not written by the tools: an imported flow, or the seeded file.
FirstData(k) ==
    LET leaves == Claimed(k) \cup Strays(k)
        values(p) == {"one", Null} \cup (IF p[1] \in Lists \cup Dicts THEN {Empty} ELSE {})
    IN  {data \in UNION {[S -> {"one", Empty, Null}] :
                            S \in UNION {kSubset(n, leaves) : n \in 0 .. MaxLeaves}} :
            \A p \in DOMAIN data :
                /\ data[p] \in values(p)
                /\ \A q \in DOMAIN data : Overlap(p, q) => p = q}

Init ==
    /\ kind \in DOMAIN Catalog
    /\ file \in FirstData(kind)
    /\ step = Import(kind, file)
    /\ edits = 0

Read ==                             \* a new session begins with the file
    /\ step' = Import(kind, file)
    /\ UNCHANGED <<kind, file, edits>>

\* Every edit compiles the step and writes the file.
Edit(new) ==
    /\ edits < MaxEdits
    /\ edits' = edits + 1
    /\ step' = new
    /\ file' = Compile(kind, new)
    /\ UNCHANGED kind

\* Values a field may be given: a list is not set to None.
Values(f) == {"many"} \cup (IF f \in Lists THEN {} ELSE {Unset})
                      \cup (IF f \in Lists \cup Dicts THEN {Empty} ELSE {})

\* deep_merge: an empty dict merged into a dict changes nothing.
Merged(f, old, new) == IF f \in Dicts /\ new = Empty /\ old # Unset THEN old ELSE new

Patch ==                            \* patch_step_block
    \E f \in FieldNames(kind) : \E value \in Values(f) :
        Edit([step EXCEPT !.fields[f] = Merged(f, @, value)])

Upsert ==                           \* upsert_step with a step of one field
    \E f \in FieldNames(kind) : \E value \in Values(f) :
        Edit([NewStep(kind) EXCEPT !.fields[f] = value])

Next == Read \/ Patch \/ Upsert
Spec == Init /\ [][Next]_vars
-----------------------------------------------------------------------------
(* Correctness. *)

\* A value that would be written in the place of a field that has none: a second
\* place of the field that the import left alone, or the value of a callback trigger.
Shadowed(s) ==
    \/ \E f \in Catalog[kind] :
          /\ ~Written(f, s.fields[f])
          /\ Range(Tail(Candidates(kind, f))) \cap DOMAIN s.data # {}
    \/ /\ kind = "callback_button_trigger"
       /\ ~Written("selected_callbacks", s.fields.selected_callbacks)
       /\ s.fields.value # Unset

\* What a value says; a trigger that waits for nothing in particular waits for "".
Meaning(f, value) ==
    IF Written(f, value) THEN value
    ELSE IF f = "value" /\ kind \in ContextTriggers THEN Blank ELSE Default(f)

(***************************************************************************)
(* The file is all the next session has: every field of the step is read   *)
(* back with the value it was given, and a field that was cleared stays    *)
(* cleared, whatever else the node holds.                                  *)
(***************************************************************************)
ReadsBackWhatWasWritten ==
    ~Shadowed(step) =>
        LET again == Import(kind, Compile(kind, step))
        IN  \A f \in Catalog[kind] : Meaning(f, again.fields[f]) = Meaning(f, step.fields[f])

\* An entry of the node that is no field, nor around or inside one.
Stray(p) == \A q \in Claimed(kind) : ~Overlap(p, q)

(***************************************************************************)
(* What the tools do not know, they keep: patching a step, now or in a     *)
(* later session, loses no entry of its node that belongs to no field.     *)
(***************************************************************************)
StrayDataSurvives ==
    [][~Upsert => \A p \in DOMAIN file :
            Stray(p) => p \in DOMAIN file' /\ file'[p] = file[p]]_vars
=============================================================================
