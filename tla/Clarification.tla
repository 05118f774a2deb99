---------------------------- MODULE Clarification ---------------------------
(***************************************************************************)
(* The answers to a clarification, from the keys of the user to what the   *)
(* model and the chat read: the menus of ConsoleUI (ui.py), the payload    *)
(* clarify_run makes of an HTTP reply, the sentence the graph gives to the *)
(* model (graph.py) and the line PersistentRunStore adds to the chat       *)
(* (storage.py).  A request asks one question, or several in a batch.      *)
(*                                                                         *)
(* A question is [id, options, multiple, free]; its options are a sequence *)
(* of ids.  An answer is [question, text, form, ids]: the id of a question *)
(* or NoId, a text, and the ids of options under option_id or option_ids.  *)
(* What is typed is one value; text is a sequence of labels, or what was   *)
(* typed.  Ids of questions are numbers: the chat takes the place of an    *)
(* answer for one that names no question.                                  *)
(***************************************************************************)
EXTENDS Lists, Integers, Sequences, SequencesExt, FiniteSetsExt

CONSTANTS
    Requests,       \* request_clarification payloads: [batch, questions]
    Lines,          \* lines of numbers that may be typed where there is no menu
    MaxKeys,        \* bound: keys pressed in one menu
    Items,          \* answers a client of the API may put into a reply
    MaxItems        \* bound: answers of one reply

NoId == 0                                               \* an answer names no question

IsQuestion(q) ==
    /\ q.id # NoId
    /\ q.options \in Seq(Range(q.options)) /\ q.multiple \in BOOLEAN /\ q.free \in BOOLEAN

IsAnswer(a) ==
    /\ a = [question |-> a.question, text |-> a.text, form |-> a.form, ids |-> a.ids]
    /\ a.ids \in Seq(Range(a.ids))

ASSUME RequestsAssumption ==
    \A r \in Requests :
        /\ r.questions \in Seq(Range(r.questions)) /\ r.questions # << >>
        /\ \A q \in Range(r.questions) : IsQuestion(q)
        /\ r.batch \/ Len(r.questions) = 1

ASSUME LinesAssumption == MaxKeys \in Nat /\ \A line \in Lines : line \in Seq(Nat)

ASSUME ItemsAssumption == MaxItems \in Nat /\ \A item \in Items : IsAnswer(item)

VARIABLES
    request,        \* payload of the interrupt
    client,         \* "terminal", "pipe" (no tty), or "web"
    at,             \* "menu", "prompt" (free text), or "sent"
    selected,       \* the row of the menu the pointer is on, 1 for the first
    checked,        \* rows with a check mark
    keys,           \* auxiliary: keys pressed in this menu
    answers,        \* answers collected so far
    listed,         \* what is sent is {"answers": [...]}, not a single answer
    meant           \* auxiliary: for each answer the options the user saw marked

vars == <<request, client, at, selected, checked, keys, answers, listed, meant>>

Label(option) == <<"label", option>>
Labels(ids)   == [i \in 1 .. Len(ids) |-> Label(ids[i])]
Typed         == << <<"typed", "">> >>

Free       == [question |-> NoId, text |-> Typed, form |-> "none", ids |-> << >>]
One(o)     == [question |-> NoId, text |-> << Label(o) >>, form |-> "option_id", ids |-> << o >>]
Many(ids)  == [question |-> NoId, text |-> Labels(ids), form |-> "option_ids", ids |-> ids]

Question == request.questions[Len(answers) + 1]
Rows     == 1 .. Len(Question.options)
Other    == Len(Question.options) + 1                   \* custom_index

\* Faulty: the row for another answer can be reached where there is none.
MaxRowWithOther == Other

MaxRow == IF Question.free THEN Other ELSE Len(Question.options)    \* max_index

\* select_clarification, _select_question_batch: the menu, or a plain prompt.
Opening(question) == IF question.options = << >> THEN "prompt" ELSE "menu"

Init ==
    /\ request \in Requests
    /\ client \in {"terminal", "pipe", "web"}
    /\ at = Opening(request.questions[1])
    /\ selected = 1
    /\ checked = {}
    /\ keys = 0
    /\ answers = << >>
    /\ listed = request.batch
    /\ meant = << >>

\* In a batch the answer names its question.
Named(answer) == [answer EXCEPT !.question = IF request.batch THEN Question.id ELSE NoId]

\* The question is answered: the next one gets a menu of its own.
Take(answer, options) ==
    /\ answers' = Append(answers, Named(answer))
    /\ meant' = Append(meant, options)
    /\ at' = IF Len(answers') = Len(request.questions) THEN "sent"
             ELSE Opening(request.questions[Len(answers') + 1])
    /\ selected' = 1
    /\ checked' = {}
    /\ keys' = 0
    /\ UNCHANGED <<request, client, listed>>
-----------------------------------------------------------------------------
(* _interactive_select: the keys. *)

Menu == client = "terminal" /\ at = "menu"

Key ==
    /\ Menu
    /\ keys < MaxKeys
    /\ keys' = keys + 1
    /\ UNCHANGED <<request, client, at, answers, listed, meant>>

Up   == Key /\ selected' = (IF selected <= 1 THEN MaxRow ELSE selected - 1) /\ UNCHANGED checked
Down == Key /\ selected' = (IF selected >= MaxRow THEN 1 ELSE selected + 1) /\ UNCHANGED checked

Toggle(row) == checked' = IF row \in checked THEN checked \ {row} ELSE checked \cup {row}

Space ==
    /\ Key
    /\ Question.multiple
    /\ selected \in Rows
    /\ Toggle(selected)
    /\ UNCHANGED selected

Digit(row) ==
    /\ Menu
    /\ row \in Rows
    /\ IF Question.multiple
         THEN Key /\ selected' = row /\ Toggle(row)
         ELSE Take(One(Question.options[row]), {Question.options[row]})

\* The rows that show a mark, a check or a bullet; with no check the pointer.
Shown ==
    IF Question.multiple /\ checked # {} THEN checked
    ELSE {selected} \ {Other}

Chosen(rows) == LET order == Only([i \in Rows |-> i], rows)         \* sorted
                IN  [i \in 1 .. Len(order) |-> Question.options[order[i]]]

Enter ==
    /\ Menu
    /\ IF selected = Other /\ checked = {}
         THEN /\ at' = "prompt"
              /\ UNCHANGED <<request, client, selected, checked, keys, answers, listed, meant>>
         ELSE LET rows == IF checked = {} THEN {selected} ELSE checked
              IN  Take(IF Question.multiple THEN Many(Chosen(rows)) ELSE One(Chosen(rows)[1]),
                       {Question.options[row] : row \in Shown})

OtherAnswer ==                      \* "c"
    /\ Menu
    /\ Question.free
    /\ at' = "prompt"
    /\ UNCHANGED <<request, client, selected, checked, keys, answers, listed, meant>>

Write ==                            \* the prompt for a free answer
    /\ client # "web"
    /\ at = "prompt"
    /\ Take(Free, {})
-----------------------------------------------------------------------------
(* _numbered_select: a line with the numbers of the options, or any text. *)

Line(numbers) ==
    LET known == Only(numbers, Rows)
        ids   == [i \in 1 .. Len(known) |-> Question.options[known[i]]]
    IN  /\ client = "pipe"
        /\ at = "menu"
        /\ IF known = << >> \/ (~Question.multiple /\ Len(numbers) > 1)
             THEN Take(Free, {})
             ELSE Take(IF Question.multiple THEN Many(ids) ELSE One(ids[1]), Range(ids))
-----------------------------------------------------------------------------
(* clarify_run: the client posts everything at once, a list of answers or  *)
(* one.  Nothing is compared with the request: ids of questions and        *)
(* options, their number and their order are what the client makes them.   *)

\* option_ids comes before option_id; an empty list counts as none.
Payload(item) ==
    [question |-> NoId, text |-> item.text, ids |-> item.ids,
     form |-> IF item.ids = << >> THEN "none" ELSE item.form]

Reply(items, list) ==
    /\ client = "web"
    /\ at # "sent"
    /\ at' = "sent"
    /\ answers' = items
    /\ listed' = list
    /\ meant' = [i \in 1 .. Len(items) |-> Range(items[i].ids)]
    /\ UNCHANGED <<request, client, selected, checked, keys>>

Post ==
    \/ \E items \in BoundedSeq(Items, MaxItems) : items # << >> /\ Reply(items, TRUE)
    \/ \E item \in Items : item.text # << >> /\ Reply(<< Payload(item) >>, FALSE)  \* min_length = 1

Next ==
    \/ Up \/ Down \/ Space \/ Enter \/ OtherAnswer \/ Write \/ Post
    \/ \E row \in 1 .. 9 : Digit(row)
    \/ \E numbers \in Lines : Line(numbers)

Spec == Init /\ [][Next]_vars
-----------------------------------------------------------------------------
(* What is read, answer by answer. *)

Id(i) == request.questions[i].id

\* format_clarification_answer: question, text and option ids.
ModelReads(i) ==
    [question |-> IF listed THEN {answers[i].question} \ {NoId} ELSE {},
     text |-> answers[i].text, ids |-> answers[i].ids]

\* The question the chat looks for: the place of the answer stands in for an id.
QuestionId(i) == IF answers[i].question = NoId THEN i ELSE answers[i].question

\* question_lookup: of two questions with one id the later one; only a batch has any.
Found(id) == {j \in 1 .. Len(request.questions) : request.batch /\ Id(j) = id}
NotFound(i) == listed /\ Found(QuestionId(i)) = {}

\* No question was found, or a batch as a whole.
Untitled == [id |-> NoId, options |-> << >>, multiple |-> FALSE, free |-> TRUE]

AskedBy(i) ==
    IF NotFound(i) THEN Untitled
    ELSE IF listed THEN request.questions[Max(Found(QuestionId(i)))]
    ELSE IF request.batch THEN Untitled ELSE request.questions[1]

\* An id that is no option stands for itself.
LabelIn(question, id) == IF id \in Range(question.options) THEN Label(id) ELSE <<"id", id>>

\* Faulty: only option_id is looked at.
LabelsOfOne(answer, question) ==
    IF answer.form = "option_id" THEN Labels(answer.ids) ELSE << >>

\* labels_for_answer_ids
LabelsOf(answer, question) ==
    [i \in 1 .. Len(answer.ids) |-> LabelIn(question, answer.ids[i])]

Answered == << <<"answered", "">> >>                    \* "Javob berildi"

\* format_clarification_answer_message: in a list the labels stand in for a missing
\* text; a single answer has its labels in parentheses when they differ.
ChatReads(i) ==
    LET answer == answers[i]
        labels == IF NotFound(i) THEN << >> ELSE LabelsOf(answer, AskedBy(i))
    IN  [question |-> AskedBy(i),
         text   |-> CASE answer.text # << >> -> answer.text
                      [] answer.text = << >> /\ labels # << >> -> labels
                      [] OTHER -> Answered,
         labels |-> IF answer.text \in {<< >>, labels} \/ listed THEN << >> ELSE labels]
-----------------------------------------------------------------------------
(* Correctness. *)

\* The ids of options of a list, each option at most once and in their order.
InOrder(ids, options) ==
    \E row \in [1 .. Len(ids) -> 1 .. Len(options)] :
        /\ \A i \in 1 .. Len(ids) : ids[i] = options[row[i]]
        /\ \A i, j \in 1 .. Len(ids) : i < j => row[i] < row[j]

(***************************************************************************)
(* The questions of a batch do not run into each other on a console: each  *)
(* answer names its own question, chooses among the options of that one,   *)
(* and only one unless several may be chosen.  A terminal moreover gives   *)
(* every option at most once and in their order, and takes a typed answer  *)
(* only where one is allowed; on a pipe options come as they were typed.   *)
(* Of clients of the API nothing of this is said: clarify_run checks none. *)
(***************************************************************************)
AnswersFitTheirQuestions ==
    client # "web" =>
        \A i \in 1 .. Len(answers) :
            LET question == request.questions[i]
                answer   == answers[i]
            IN  /\ request.batch => answer.question = question.id
                /\ Range(answer.ids) \subseteq Range(question.options)
                /\ ~question.multiple => Len(answer.ids) <= 1
                /\ client = "terminal" =>
                     /\ InOrder(answer.ids, question.options)
                     /\ answer.ids = << >> => question.free \/ question.options = << >>

DistinctIds == \A i, j \in 1 .. Len(request.questions) : Id(i) = Id(j) => i = j

(***************************************************************************)
(* The model and the chat read the options that were marked when the       *)
(* answer was given, or posted, and for one question.  The model reads     *)
(* them by id, the chat by label where no text was written instead, and    *)
(* an id that is no option as it is.  What a console sends is read with    *)
(* the question that was on the screen.  Not said of a post for a question *)
(* that was not asked: the chat then shows no options.                     *)
(***************************************************************************)
BothReadWhatWasMarked ==
    at = "sent" /\ DistinctIds =>
        \A i \in 1 .. Len(answers) :
            LET model  == ModelReads(i)
                chat   == ChatReads(i)
                labels == {LabelIn(chat.question, o) : o \in meant[i]}
            IN  /\ Range(model.ids) = meant[i]
                /\ client # "web" => ~NotFound(i) /\ chat.question = request.questions[i]
                /\ ~NotFound(i) =>
                     /\ model.question \subseteq {chat.question.id}
                     /\ meant[i] # {} /\ (client # "web" \/ answers[i].text = << >>) =>
                          Range(chat.text) = labels
                     /\ chat.labels # << >> => Range(chat.labels) = labels
=============================================================================
