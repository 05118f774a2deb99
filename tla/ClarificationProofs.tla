------------------------- MODULE ClarificationProofs ------------------------
(***************************************************************************)
(* What the user marks is what the model and the chat read, whatever the   *)
(* questions of a batch and the keys that answer them.                     *)
(***************************************************************************)
EXTENDS Clarification, TLAPS

\* For its lemma about Only: the sets of its documents do not matter here.
Docs == INSTANCE FlowDocumentProofs WITH Ids <- {}, None <- "none"

-----------------------------------------------------------------------------
(***************************************************************************)
(* The inductive invariant.  On a console a menu belongs to the question   *)
(* the next answer is for: the pointer and the marks are on rows of that   *)
(* question, and the prompt of a terminal is open only where a typed       *)
(* answer may be given.  Every answer taken names and fits the question at *)
(* its place.  Of a reply to the API no more is known than what it holds.  *)
(***************************************************************************)
Fits(by, answer, marked, question) ==
    /\ IsAnswer(answer)
    /\ answer.ids \in Seq(Range(question.options))
    /\ Range(answer.ids) = marked
    /\ answer.text \in {Typed, Labels(answer.ids)}
    /\ answer.text = Typed => marked = {}
    /\ ~question.multiple => Len(answer.ids) <= 1
    /\ by = "terminal" =>
         /\ InOrder(answer.ids, question.options)
         /\ answer.ids = << >> => question.free \/ question.options = << >>

Names(answer, question) == answer.question = IF request.batch THEN question.id ELSE NoId

AnswersInvariant ==
    /\ answers \in Seq(Range(answers))
    /\ meant \in Seq(Range(meant))
    /\ Len(meant) = Len(answers)
    /\ Len(answers) <= Len(request.questions)
    /\ \A i \in 1 .. Len(answers) : /\ Fits(client, answers[i], meant[i], request.questions[i])
                                   /\ Names(answers[i], request.questions[i])

MenuInvariant ==
    /\ at = "menu" => /\ Question.options # << >>
                      /\ selected \in 1 .. MaxRow
                      /\ checked \subseteq Rows
                      /\ ~Question.multiple => checked = {}
    /\ at = "prompt" /\ client = "terminal" => Question.free \/ Question.options = << >>

ConsoleInvariant ==
    /\ listed = request.batch
    /\ at = "sent" <=> Len(answers) = Len(request.questions)
    /\ AnswersInvariant
    /\ MenuInvariant

ReplyInvariant ==
    IF at = "sent"
      THEN \A i \in 1 .. Len(answers) :
             /\ IsAnswer(answers[i])
             /\ Range(answers[i].ids) = meant[i]
             /\ ~listed => answers[i].text # << >>
      ELSE answers = << >> /\ meant = << >>

ClarificationInvariant ==
    /\ request \in Requests
    /\ client \in {"terminal", "pipe", "web"}
    /\ at \in {"menu", "prompt", "sent"}
    /\ IF client = "web" THEN ReplyInvariant ELSE ConsoleInvariant

-----------------------------------------------------------------------------
(***************************************************************************)
(* Sequences of options.                                                   *)
(***************************************************************************)
LEMMA OnlyIs ==
    ASSUME NEW S, NEW s \in Seq(S), NEW set
    PROVE  /\ Only(s, set) \in Seq(S \cap set)
           /\ Range(Only(s, set)) = Range(s) \cap set
           /\ Len(Only(s, set)) <= Len(s)
           /\ \E row \in [1 .. Len(Only(s, set)) -> 1 .. Len(s)] :
                 /\ \A i \in 1 .. Len(Only(s, set)) : Only(s, set)[i] = s[row[i]]
                 /\ \A i, j \in 1 .. Len(Only(s, set)) : i < j => row[i] < row[j]
<1>1. Only(s, set) = Docs!Only(s, set)
  BY DEF Only, Docs!Only
<1>2. \A x : Docs!ToSet(x) = Range(x)
  BY DEF Range, Docs!ToSet
<1>3. /\ Docs!Only(s, set) \in Seq(S \cap set)
      /\ Docs!ToSet(Docs!Only(s, set)) = Docs!ToSet(s) \cap set
      /\ Len(Docs!Only(s, set)) <= Len(s)
      /\ \E row \in [1 .. Len(Docs!Only(s, set)) -> 1 .. Len(s)] :
           /\ \A i \in 1 .. Len(Docs!Only(s, set)) : Docs!Only(s, set)[i] = s[row[i]]
           /\ \A i, j \in 1 .. Len(Docs!Only(s, set)) : i < j => row[i] < row[j]
  BY Docs!OnlyProperties
<1> QED
  BY <1>1, <1>2, <1>3

LEMMA IsSeqOf ==
    ASSUME NEW S, NEW n \in Nat, NEW s \in [1 .. n -> S]
    PROVE  s \in Seq(S) /\ Len(s) = n
OBVIOUS

\* The options of some rows.
LEMMA OptionsOfRows ==
    ASSUME NEW S, NEW options \in Seq(S), NEW order \in Seq(1 .. Len(options)), NEW ids,
           DOMAIN ids = 1 .. Len(order), ids = [i \in DOMAIN ids |-> ids[i]],
           \A i \in 1 .. Len(order) : ids[i] = options[order[i]]
    PROVE  /\ ids \in Seq(Range(options)) /\ Len(ids) = Len(order)
           /\ \A o : o \in Range(ids) <=> \E row \in Range(order) : o = options[row]
<1>1. DOMAIN options = 1 .. Len(options) /\ DOMAIN order = 1 .. Len(order) /\ Len(order) \in Nat
  OBVIOUS
<1>2. \A i \in 1 .. Len(order) : order[i] \in 1 .. Len(options)
  OBVIOUS
<1>3. \A i \in 1 .. Len(order) : ids[i] \in Range(options)
  BY <1>1, <1>2 DEF Range
<1>4. ids \in [1 .. Len(order) -> Range(options)]
  BY <1>3
<1>5. ids \in Seq(Range(options)) /\ Len(ids) = Len(order) /\ DOMAIN ids = 1 .. Len(order)
  BY <1>1, <1>4, IsSeqOf
<1> QED
  BY <1>1, <1>5 DEF Range

LEMMA ChosenRows ==
    ASSUME Question.options \in Seq(Range(Question.options)), NEW rows, rows \subseteq Rows
    PROVE  /\ Chosen(rows) \in Seq(Range(Question.options))
           /\ Range(Chosen(rows)) = {Question.options[row] : row \in rows}
           /\ InOrder(Chosen(rows), Question.options)
<1> DEFINE options == Question.options
           n       == Len(options)
           all     == [i \in Rows |-> i]
           order   == Only(all, rows)
<1>1. n \in Nat /\ Rows = 1 .. n
  BY DEF Rows
<1>2. all \in Seq(1 .. n) /\ Len(all) = n /\ Range(all) = 1 .. n
  <2>1. all \in [1 .. n -> 1 .. n] /\ DOMAIN all = 1 .. n
    BY <1>1
  <2>2. \A i \in 1 .. n : all[i] = i
    BY <1>1
  <2> HIDE DEF all, n
  <2>3. all \in Seq(1 .. n) /\ Len(all) = n
    BY <1>1, <2>1, IsSeqOf
  <2>4. Range(all) = 1 .. n
    BY <2>1, <2>2 DEF Range
  <2> QED
    BY <2>3, <2>4
<1>3. \A i \in 1 .. n : all[i] = i
  BY <1>1
<1> HIDE DEF all
<1>4. /\ order \in Seq(1 .. n) /\ Range(order) = rows
      /\ \E row \in [1 .. Len(order) -> 1 .. n] :
           /\ \A i \in 1 .. Len(order) : order[i] = all[row[i]]
           /\ \A i, j \in 1 .. Len(order) : i < j => row[i] < row[j]
  <2>1. order \in Seq((1 .. n) \cap rows)
    BY <1>2, OnlyIs
  <2>2. (1 .. n) \cap rows = rows
    BY <1>1
  <2>3. rows \subseteq 1 .. n
    BY <1>1
  <2>4. order \in Seq(1 .. n)
    BY <2>1, <2>2
  <2>5. /\ Range(order) = Range(all) \cap rows
        /\ \E row \in [1 .. Len(order) -> 1 .. Len(all)] :
             /\ \A i \in 1 .. Len(order) : order[i] = all[row[i]]
             /\ \A i, j \in 1 .. Len(order) : i < j => row[i] < row[j]
    <3> HIDE DEF n
    <3>1. all \in Seq(1 .. n)
      BY <1>2
    <3> QED
      BY <3>1, OnlyIs, Zenon
  <2> QED
    BY <1>2, <2>2, <2>4, <2>5
<1>5. Chosen(rows) = [i \in 1 .. Len(order) |-> options[order[i]]]
  BY DEF Chosen, all
<1> HIDE DEF order, options, n
<1>6. options \in Seq(Range(options)) /\ n = Len(options)
  BY DEF options, n
<1>7. /\ Chosen(rows) \in Seq(Range(options)) /\ Len(Chosen(rows)) = Len(order)
      /\ Range(Chosen(rows)) = {options[row] : row \in rows}
  <2> DEFINE c == Chosen(rows)
  <2>1. /\ DOMAIN c = 1 .. Len(order) /\ c = [i \in DOMAIN c |-> c[i]]
        /\ \A i \in 1 .. Len(order) : c[i] = options[order[i]]
    BY <1>5
  <2> HIDE DEF c
  <2>2. options \in Seq(Range(options)) /\ order \in Seq(1 .. Len(options))
    BY <1>4, <1>6
  <2>3. /\ c \in Seq(Range(options)) /\ Len(c) = Len(order)
        /\ \A o : o \in Range(c) <=> \E row \in Range(order) : o = options[row]
    BY <2>1, <2>2, OptionsOfRows
  <2> QED
    BY <1>4, <2>3 DEF c
<1>8. InOrder(Chosen(rows), options)
  <2>1. PICK row \in [1 .. Len(order) -> 1 .. n] :
            /\ \A i \in 1 .. Len(order) : order[i] = all[row[i]]
            /\ \A i, j \in 1 .. Len(order) : i < j => row[i] < row[j]
    BY <1>4
  <2>2. \A i \in 1 .. Len(order) : order[i] = row[i]
    BY <1>3, <2>1
  <2>3. \A i \in 1 .. Len(order) : Chosen(rows)[i] = options[row[i]]
    BY <1>5, <2>2
  <2> QED
    BY <1>6, <1>7, <2>1, <2>3 DEF InOrder
<1> QED
  BY <1>7, <1>8 DEF options

\* One option of a question.
LEMMA OneOption ==
    ASSUME NEW S, NEW options \in Seq(S), NEW row \in 1 .. Len(options)
    PROVE  /\ One(options[row]).ids \in Seq(Range(options))
           /\ Len(One(options[row]).ids) = 1
           /\ Range(One(options[row]).ids) = {options[row]}
           /\ InOrder(One(options[row]).ids, options)
           /\ One(options[row]).ids # << >>
           /\ One(options[row]).text = Labels(One(options[row]).ids)
<1> DEFINE o == options[row]
<1>1. o \in Range(options)
  BY DEF Range
<1>2. One(o).ids = <<o>> /\ One(o).text = <<Label(o)>>
  BY DEF One
<1>3. <<o>> \in Seq(Range(options)) /\ Len(<<o>>) = 1 /\ Range(<<o>>) = {o} /\ <<o>> # << >>
  BY <1>1 DEF Range
<1>4. Labels(<<o>>) = <<Label(o)>>
  BY DEF Labels
<1>5. InOrder(<<o>>, options)
  <2>1. [i \in 1 .. 1 |-> row] \in [1 .. Len(<<o>>) -> 1 .. Len(options)]
    BY <1>3
  <2>2. \A i \in 1 .. Len(<<o>>) : <<o>>[i] = options[[j \in 1 .. 1 |-> row][i]]
    BY <1>3
  <2>3. \A i, j \in 1 .. Len(<<o>>) : ~ i < j
    BY <1>3
  <2> QED
    BY <2>1, <2>2, <2>3, <1>3 DEF InOrder
<1> QED
  BY <1>2, <1>3, <1>4, <1>5

LEMMA Appending ==
    ASSUME NEW s, s \in Seq(Range(s)), NEW e
    PROVE  /\ Append(s, e) \in Seq(Range(Append(s, e)))
           /\ Len(s) \in Nat
           /\ Len(Append(s, e)) = Len(s) + 1
           /\ \A i \in 1 .. Len(s) : Append(s, e)[i] = s[i]
           /\ Append(s, e)[Len(s) + 1] = e
<1> DEFINE S == Range(s) \cup {e}
           t == Append(s, e)
           n == Len(s) + 1
<1>1. s \in Seq(S)
  OBVIOUS
<1> HIDE DEF S
<1>2. e \in S
  BY DEF S
<1>3. /\ t \in Seq(S) /\ Len(s) \in Nat /\ Len(t) = n
      /\ \A i \in 1 .. Len(s) : t[i] = s[i]
      /\ t[n] = e
  BY <1>1, <1>2
<1> HIDE DEF t
<1>4. n \in Nat /\ DOMAIN t = 1 .. n /\ t = [i \in 1 .. n |-> t[i]]
  BY <1>3
<1> HIDE DEF n
<1>5. t \in [1 .. n -> Range(t)]
  BY <1>4 DEF Range
<1> QED
  BY <1>3, <1>4, <1>5, IsSeqOf DEF t, n

-----------------------------------------------------------------------------
(***************************************************************************)
(* The question at hand, and the answer to it.                             *)
(***************************************************************************)
LEMMA QuestionAtHand ==
    ASSUME ClarificationInvariant, client # "web"
    PROVE  /\ request.questions \in Seq(Range(request.questions))
           /\ Len(answers) \in Nat /\ Len(request.questions) \in Nat
           /\ at # "sent" => /\ Len(answers) < Len(request.questions)
                             /\ Len(answers) + 1 \in 1 .. Len(request.questions)
                             /\ IsQuestion(Question)
<1>1. request.questions \in Seq(Range(request.questions))
  BY RequestsAssumption DEF ClarificationInvariant
<1>2. Len(answers) \in Nat
  <2>1. answers \in Seq(Range(answers))
    BY DEF ClarificationInvariant, ConsoleInvariant, AnswersInvariant
  <2> QED
    BY <2>1
<1>3. Len(request.questions) \in Nat /\ DOMAIN request.questions = 1 .. Len(request.questions)
  BY <1>1
<1>4. ASSUME at # "sent"
      PROVE  /\ Len(answers) < Len(request.questions)
             /\ Len(answers) + 1 \in 1 .. Len(request.questions)
  BY <1>2, <1>3, <1>4 DEF ClarificationInvariant, ConsoleInvariant, AnswersInvariant
<1>5. ASSUME at # "sent"
      PROVE  IsQuestion(Question)
  <2>1. Question \in Range(request.questions)
    BY <1>3, <1>4, <1>5 DEF Question, Range
  <2> QED
    BY <2>1, RequestsAssumption DEF ClarificationInvariant
<1> QED
  BY <1>1, <1>2, <1>3, <1>4, <1>5

LEMMA OpeningOf ==
    ASSUME NEW question
    PROVE  /\ Opening(question) \in {"menu", "prompt"}
           /\ Opening(question) = "menu" => question.options # << >>
           /\ Opening(question) = "prompt" => question.options = << >>
BY DEF Opening

\* Naming the question leaves the rest of the answer alone.
LEMMA NamedFits ==
    ASSUME NEW answer, NEW marked, Fits(client, answer, marked, Question)
    PROVE  Fits(client, Named(answer), marked, Question) /\ Names(Named(answer), Question)
<1> DEFINE name  == IF request.batch THEN Question.id ELSE NoId
           named == [question |-> name, text |-> answer.text, form |-> answer.form,
                     ids |-> answer.ids]
<1>1. answer = [question |-> answer.question, text |-> answer.text, form |-> answer.form,
                ids |-> answer.ids]
  BY DEF Fits, IsAnswer
<1>2. Named(answer) = named
  BY <1>1 DEF Named
<1>3. named.ids = answer.ids /\ named.text = answer.text /\ named.question = name /\ IsAnswer(named)
  BY DEF Fits, IsAnswer
<1> HIDE DEF named
<1> QED
  BY <1>2, <1>3 DEF Fits, Names

\* An answer that fits its question may be taken: the next question, if there is one, is
\* opened with the pointer on its first row and no mark.
LEMMA TakeKeeps ==
    ASSUME ClarificationInvariant, client # "web", at # "sent",
           NEW answer, NEW marked, Fits(client, answer, marked, Question), Take(answer, marked)
    PROVE  ClarificationInvariant'
<1> DEFINE n  == Len(answers)
           qs == request.questions
           next == qs[n + 2]
<1>1. n \in Nat /\ Len(qs) \in Nat /\ n < Len(qs)
  BY QuestionAtHand
<1>2. /\ answers' = Append(answers, Named(answer)) /\ meant' = Append(meant, marked)
      /\ request' = request /\ client' = client /\ listed' = listed
      /\ selected' = 1 /\ checked' = {}
      /\ at' = IF Len(answers') = Len(qs) THEN "sent" ELSE Opening(qs[Len(answers') + 1])
  BY DEF Take
<1>3. /\ answers \in Seq(Range(answers)) /\ meant \in Seq(Range(meant)) /\ Len(meant) = n
      /\ \A i \in 1 .. n : Fits(client, answers[i], meant[i], qs[i]) /\ Names(answers[i], qs[i])
  BY DEF ClarificationInvariant, ConsoleInvariant, AnswersInvariant
<1>4. /\ answers' \in Seq(Range(answers')) /\ Len(answers') = n + 1
      /\ \A i \in 1 .. n : answers'[i] = answers[i]
      /\ answers'[n + 1] = Named(answer)
  BY <1>2, <1>3, Appending
<1>5. /\ meant' \in Seq(Range(meant')) /\ Len(meant') = n + 1
      /\ \A i \in 1 .. n : meant'[i] = meant[i]
      /\ meant'[n + 1] = marked
  BY <1>2, <1>3, Appending
<1>6. AnswersInvariant'
  <2>1. \A i \in 1 .. n + 1 : /\ Fits(client, answers'[i], meant'[i], qs[i])
                              /\ Names(answers'[i], qs[i])
    <3>1. qs[n + 1] = Question
      BY DEF Question
    <3>2. \A i \in 1 .. n + 1 : i \in 1 .. n \/ i = n + 1
      BY <1>1
    <3>3. Fits(client, Named(answer), marked, Question) /\ Names(Named(answer), Question)
      BY NamedFits
    <3> QED
      BY <1>3, <1>4, <1>5, <3>1, <3>2, <3>3
  <2> QED
    BY <1>1, <1>2, <1>4, <1>5, <2>1 DEF AnswersInvariant, Names
<1>7. CASE n + 1 = Len(qs)
  <2>1. at' = "sent" /\ Len(answers') = Len(request'.questions)
    BY <1>2, <1>4, <1>7
  <2> QED
    BY <1>2, <1>6, <2>1 DEF ClarificationInvariant, ConsoleInvariant, MenuInvariant
<1>8. CASE n + 1 # Len(qs)
  <2>1. at' = Opening(next) /\ Question' = next /\ (n + 1) + 1 = n + 2
    BY <1>1, <1>2, <1>4, <1>8 DEF Question
  <2>2. IsQuestion(next)
    <3>1. qs \in Seq(Range(qs)) /\ n + 2 \in 1 .. Len(qs)
      BY <1>1, <1>8, QuestionAtHand
    <3>2. next \in Range(qs)
      BY <3>1 DEF Range
    <3> QED
      BY <3>2, RequestsAssumption DEF ClarificationInvariant
  <2> HIDE DEF next
  <2>3. ASSUME at' = "menu"
        PROVE  /\ Question'.options # << >>
               /\ selected' \in 1 .. MaxRow'
    <3>1. Question'.options # << >> /\ next.options \in Seq(Range(next.options))
      BY <2>1, <2>2, <2>3, OpeningOf DEF IsQuestion
    <3>2. Len(Question'.options) \in Nat /\ Len(Question'.options) >= 1
      BY <2>1, <3>1
    <3>3. MaxRow' = IF Question'.free THEN Len(Question'.options) + 1 ELSE Len(Question'.options)
      BY DEF MaxRow, Other
    <3> QED
      BY <1>2, <3>1, <3>2, <3>3
  <2>4. MenuInvariant'
    BY <1>2, <2>1, <2>3, OpeningOf DEF MenuInvariant
  <2>5. /\ at' \in {"menu", "prompt", "sent"} /\ at' # "sent"
        /\ Len(answers') # Len(request'.questions)
    BY <1>2, <1>4, <1>8, <2>1, OpeningOf
  <2> QED
    BY <1>2, <1>6, <2>4, <2>5 DEF ClarificationInvariant, ConsoleInvariant
<1> QED
  BY <1>7, <1>8

-----------------------------------------------------------------------------
(***************************************************************************)
(* The keys that stay with the question.                                   *)
(***************************************************************************)
LEMMA SameQuestion ==
    ASSUME UNCHANGED <<request, client, answers, meant>>
    PROVE  /\ Question' = Question /\ Rows' = Rows /\ MaxRow' = MaxRow
           /\ AnswersInvariant => AnswersInvariant'
<1>1. Question' = Question
  BY DEF Question
<1> QED
  BY <1>1 DEF Rows, MaxRow, Other, AnswersInvariant, Names

LEMMA KeyKeeps ==
    ASSUME ClarificationInvariant, client # "web", Key,
           selected' \in 1 .. MaxRow, checked' \subseteq Rows,
           ~Question.multiple => checked' = {}
    PROVE  ClarificationInvariant'
<1>1. /\ at = "menu" /\ at' = "menu"
      /\ UNCHANGED <<request, client, answers, listed, meant>>
  BY DEF Key, Menu
<1>2. MenuInvariant'
  BY <1>1, SameQuestion DEF ClarificationInvariant, ConsoleInvariant, MenuInvariant
<1> QED
  BY <1>1, <1>2, SameQuestion DEF ClarificationInvariant, ConsoleInvariant

LEMMA PromptKeeps ==
    ASSUME ClarificationInvariant, client # "web", at = "menu", Question.free, at' = "prompt",
           UNCHANGED <<request, client, answers, listed, meant>>
    PROVE  ClarificationInvariant'
<1>1. MenuInvariant'
  BY SameQuestion DEF MenuInvariant
<1> QED
  BY <1>1, SameQuestion DEF ClarificationInvariant, ConsoleInvariant

\* The pointer and the marks of an open menu.
LEMMA OnTheMenu ==
    ASSUME ClarificationInvariant, client # "web", at = "menu"
    PROVE  /\ IsQuestion(Question) /\ Question.options # << >>
           /\ Len(Question.options) \in Nat /\ Len(Question.options) >= 1
           /\ Rows = 1 .. Len(Question.options)
           /\ Other = Len(Question.options) + 1
           /\ MaxRow = IF Question.free THEN Other ELSE Len(Question.options)
           /\ selected \in 1 .. MaxRow /\ checked \subseteq Rows
           /\ ~Question.multiple => checked = {}
<1>1. IsQuestion(Question)
  BY QuestionAtHand
<1>2. /\ Question.options # << >> /\ selected \in 1 .. MaxRow /\ checked \subseteq Rows
      /\ ~Question.multiple => checked = {}
  BY DEF ClarificationInvariant, ConsoleInvariant, MenuInvariant
<1>3. Question.options \in Seq(Range(Question.options))
  BY <1>1 DEF IsQuestion
<1>4. Len(Question.options) \in Nat /\ Len(Question.options) >= 1
  BY <1>2, <1>3
<1> QED
  BY <1>1, <1>2, <1>4 DEF Rows, Other, MaxRow

LEMMA UpKeeps == ClarificationInvariant /\ Up => ClarificationInvariant'
<1> SUFFICES ASSUME ClarificationInvariant, Up PROVE ClarificationInvariant'
  OBVIOUS
<1>1. Key /\ at = "menu" /\ client = "terminal" /\ checked' = checked
      /\ selected' = IF selected <= 1 THEN MaxRow ELSE selected - 1
  BY DEF Up, Key, Menu
<1>2. selected' \in 1 .. MaxRow
  BY <1>1, OnTheMenu
<1> QED
  BY <1>1, <1>2, OnTheMenu, KeyKeeps

LEMMA DownKeeps == ClarificationInvariant /\ Down => ClarificationInvariant'
<1> SUFFICES ASSUME ClarificationInvariant, Down PROVE ClarificationInvariant'
  OBVIOUS
<1>1. Key /\ at = "menu" /\ client = "terminal" /\ checked' = checked
      /\ selected' = IF selected >= MaxRow THEN 1 ELSE selected + 1
  BY DEF Down, Key, Menu
<1>2. selected' \in 1 .. MaxRow
  BY <1>1, OnTheMenu
<1> QED
  BY <1>1, <1>2, OnTheMenu, KeyKeeps

LEMMA SpaceKeeps == ClarificationInvariant /\ Space => ClarificationInvariant'
<1> SUFFICES ASSUME ClarificationInvariant, Space PROVE ClarificationInvariant'
  OBVIOUS
<1>1. /\ Key /\ at = "menu" /\ client = "terminal"
      /\ Question.multiple /\ selected \in Rows /\ selected' = selected
      /\ Toggle(selected)
  BY DEF Space, Key, Menu
<1>2. checked' \subseteq Rows
  BY <1>1, OnTheMenu DEF Toggle
<1> QED
  BY <1>1, <1>2, OnTheMenu, KeyKeeps

-----------------------------------------------------------------------------
(***************************************************************************)
(* The keys, lines and posts that answer.                                  *)
(***************************************************************************)
LEMMA FreeFits ==
    ASSUME NEW by, NEW question,
           by = "terminal" => question.free \/ question.options = << >>
    PROVE  Fits(by, Free, {}, question)
<1>1. Free.ids = << >> /\ Free.text = Typed
  BY DEF Free
<1>2. << >> \in Seq(Range(question.options)) /\ Len(<< >>) = 0 /\ Range(<< >>) = {}
  BY DEF Range
<1>3. IsAnswer(Free)
  BY DEF Free, IsAnswer
<1>4. InOrder(<< >>, question.options)
  <2>1. \E row \in [1 .. 0 -> 1 .. Len(question.options)] : TRUE
    <3>1. [i \in 1 .. 0 |-> 1] \in [1 .. 0 -> 1 .. Len(question.options)]
      OBVIOUS
    <3> QED
      BY <3>1
  <2>2. \A i \in 1 .. Len(<< >>) : FALSE
    BY <1>2
  <2>3. 1 .. Len(<< >>) = 1 .. 0
    BY <1>2
  <2> QED
    BY <2>1, <2>2, <2>3 DEF InOrder
<1> QED
  BY <1>1, <1>2, <1>3, <1>4 DEF Fits

LEMMA TypedIsNoLabel ==
    ASSUME NEW ids, DOMAIN ids = 1 .. Len(ids)
    PROVE  Labels(ids) # Typed
<1>1. Typed[1] = <<"typed", "">> /\ 1 \in DOMAIN Typed
  <2>1. \A x : << x >>[1] = x /\ 1 \in DOMAIN << x >>
    OBVIOUS
  <2> QED
    BY <2>1, Zenon DEF Typed
<1>2. \A i \in DOMAIN Labels(ids) : Labels(ids)[i] = <<"label", ids[i]>>
  BY DEF Labels, Label
<1>3. \A x : <<"typed", "">> # <<"label", x>>
  <2>1. "typed" # "label"
    OBVIOUS
  <2>2. \A x, y : <<x, y>>[1] = x
    OBVIOUS
  <2> QED
    BY <2>1, <2>2
<1> QED
  BY <1>1, <1>2, <1>3

LEMMA OneFits ==
    ASSUME NEW by, NEW question, IsQuestion(question), NEW row \in 1 .. Len(question.options)
    PROVE  Fits(by, One(question.options[row]), {question.options[row]}, question)
<1>1. question.options \in Seq(Range(question.options))
  BY DEF IsQuestion
<1> DEFINE answer == One(question.options[row])
<1>2. /\ answer.ids \in Seq(Range(question.options)) /\ Len(answer.ids) = 1
      /\ Range(answer.ids) = {question.options[row]}
      /\ InOrder(answer.ids, question.options)
      /\ answer.ids # << >>
      /\ answer.text = Labels(answer.ids)
  BY <1>1, OneOption
<1>3. IsAnswer(answer)
  BY DEF One, IsAnswer, Range
<1> HIDE DEF answer
<1>4. answer.text # Typed
  BY <1>2, TypedIsNoLabel
<1>5. Fits(by, answer, {question.options[row]}, question)
  BY <1>2, <1>3, <1>4 DEF Fits
<1> QED
  BY <1>5 DEF answer

LEMMA DigitKeeps ==
    ASSUME ClarificationInvariant, NEW row \in 1 .. 9, Digit(row)
    PROVE  ClarificationInvariant'
<1>1. at = "menu" /\ client = "terminal" /\ row \in Rows
  BY DEF Digit, Menu
<1>2. CASE Question.multiple
  <2>1. Key /\ selected' = row /\ Toggle(row)
    BY <1>2 DEF Digit
  <2>2. checked' \subseteq Rows
    BY <1>1, <2>1, OnTheMenu DEF Toggle
  <2>3. selected' \in 1 .. MaxRow
    BY <1>1, <2>1, OnTheMenu
  <2> QED
    BY <1>1, <1>2, <2>1, <2>2, <2>3, KeyKeeps
<1>3. CASE ~Question.multiple
  <2>1. Take(One(Question.options[row]), {Question.options[row]})
    BY <1>3 DEF Digit
  <2>2. Fits(client, One(Question.options[row]), {Question.options[row]}, Question)
    BY <1>1, OnTheMenu, OneFits
  <2> QED
    BY <1>1, <2>1, <2>2, TakeKeeps
<1> QED
  BY <1>2, <1>3

LEMMA OtherAnswerKeeps == ClarificationInvariant /\ OtherAnswer => ClarificationInvariant'
BY PromptKeeps DEF OtherAnswer, Menu

LEMMA WriteKeeps == ClarificationInvariant /\ Write => ClarificationInvariant'
<1> SUFFICES ASSUME ClarificationInvariant, Write PROVE ClarificationInvariant'
  OBVIOUS
<1>1. at # "sent" /\ client # "web" /\ Take(Free, {})
  BY DEF Write
<1>2. client = "terminal" => Question.free \/ Question.options = << >>
  BY DEF Write, ClarificationInvariant, ConsoleInvariant, MenuInvariant
<1> QED
  BY <1>1, <1>2, FreeFits, TakeKeeps

LEMMA ManyIs ==
    ASSUME NEW S, NEW ids \in Seq(S)
    PROVE  /\ IsAnswer(Many(ids)) /\ Many(ids).ids = ids
           /\ Many(ids).text = Labels(ids) /\ Many(ids).text # Typed
<1>1. Many(ids).ids = ids /\ Many(ids).text = Labels(ids)
  BY DEF Many
<1>2. Labels(ids) # Typed
  BY TypedIsNoLabel
<1>3. ids \in Seq(Range(ids))
  BY DEF Range
<1>4. IsAnswer(Many(ids))
  BY <1>3 DEF Many, IsAnswer
<1> QED
  BY <1>1, <1>2, <1>4

\* With several answers allowed the marked rows are taken, or the one the pointer is on;
\* with one answer there are no marks.
LEMMA EnterKeeps == ClarificationInvariant /\ Enter => ClarificationInvariant'
<1> SUFFICES ASSUME ClarificationInvariant, Enter PROVE ClarificationInvariant'
  OBVIOUS
<1>1. at = "menu" /\ client = "terminal"
  BY DEF Enter, Menu
<1>2. CASE selected = Other /\ checked = {}
  <2>1. at' = "prompt" /\ UNCHANGED <<request, client, answers, listed, meant>>
    BY <1>2 DEF Enter
  <2>2. Question.free
    BY <1>1, <1>2, OnTheMenu
  <2> QED
    BY <1>1, <2>1, <2>2, PromptKeeps
<1>3. CASE ~ (selected = Other /\ checked = {})
  <2> DEFINE rows   == IF checked = {} THEN {selected} ELSE checked
             answer == IF Question.multiple THEN Many(Chosen(rows)) ELSE One(Chosen(rows)[1])
             marked == {Question.options[row] : row \in Shown}
  <2>1. Take(answer, marked)
    BY <1>3 DEF Enter
  <2>2. rows \subseteq Rows /\ rows # {} /\ (checked = {} => selected \in Rows /\ selected # Other)
    BY <1>1, <1>3, OnTheMenu
  <2>3. Shown = rows
    BY <1>1, <2>2, OnTheMenu DEF Shown
  <2>4. Question.options \in Seq(Range(Question.options)) /\ Question.multiple \in BOOLEAN
    BY <1>1, OnTheMenu DEF IsQuestion
  <2>5. /\ Chosen(rows) \in Seq(Range(Question.options))
        /\ Range(Chosen(rows)) = marked
        /\ InOrder(Chosen(rows), Question.options)
    BY <2>2, <2>3, <2>4, ChosenRows
  <2>6. ASSUME Question.multiple
        PROVE  Fits(client, Many(Chosen(rows)), marked, Question)
    <3>1. /\ IsAnswer(Many(Chosen(rows))) /\ Many(Chosen(rows)).ids = Chosen(rows)
          /\ Many(Chosen(rows)).text = Labels(Chosen(rows)) /\ Many(Chosen(rows)).text # Typed
      BY <2>5, ManyIs
    <3>2. Chosen(rows) # << >>
      <4>1. PICK row \in rows : TRUE
        BY <2>2
      <4>2. Question.options[row] \in Range(Chosen(rows))
        BY <2>3, <2>5, <4>1
      <4>3. Range(<< >>) = {}
        BY DEF Range
      <4> QED
        BY <4>2, <4>3
    <3> QED
      BY <2>5, <2>6, <3>1, <3>2 DEF Fits
  <2>7. ASSUME ~Question.multiple
        PROVE  Fits(client, One(Chosen(rows)[1]), marked, Question)
    <3>1. rows = {selected} /\ selected \in 1 .. Len(Question.options)
      BY <1>1, <2>2, <2>7, OnTheMenu
    <3>2. marked = {Question.options[selected]}
      BY <2>3, <3>1
    <3>3. Chosen(rows)[1] \in Range(Chosen(rows))
      <4>1. Chosen(rows) # << >>
        <5>1. Range(<< >>) = {}
          BY DEF Range
        <5> QED
          BY <2>5, <3>2, <5>1
      <4>2. 1 \in DOMAIN Chosen(rows)
        BY <2>5, <4>1
      <4> QED
        BY <4>2 DEF Range
    <3>4. Chosen(rows)[1] = Question.options[selected]
      BY <2>5, <3>2, <3>3
    <3>5. IsQuestion(Question)
      BY <1>1, OnTheMenu
    <3>6. Fits(client, One(Question.options[selected]), {Question.options[selected]}, Question)
      BY <3>1, <3>5, OneFits
    <3> QED
      BY <3>2, <3>4, <3>6
  <2>8. Fits(client, answer, marked, Question)
    BY <2>6, <2>7
  <2> HIDE DEF answer, marked
  <2> QED
    BY <1>1, <2>1, <2>8, TakeKeeps
<1> QED
  BY <1>2, <1>3

\* Numbers that no option has are skipped; a line with none left is a typed answer.
LEMMA LineKeeps ==
    ASSUME ClarificationInvariant, NEW numbers \in Lines, Line(numbers)
    PROVE  ClarificationInvariant'
<1> DEFINE options == Question.options
           known   == Only(numbers, Rows)
           ids     == [i \in 1 .. Len(known) |-> options[known[i]]]
<1>1. at = "menu" /\ client = "pipe"
  BY DEF Line
<1>2. options \in Seq(Range(options)) /\ Question.multiple \in BOOLEAN
  BY <1>1, OnTheMenu DEF IsQuestion
<1>3. numbers \in Seq(Nat) /\ Len(numbers) \in Nat
  BY LinesAssumption
<1>4. known \in Seq(1 .. Len(options)) /\ Len(known) <= Len(numbers)
  <2>1. /\ known \in Seq(Nat \cap Rows)
        /\ Len(known) <= Len(numbers)
    BY <1>3, OnlyIs
  <2>2. Nat \cap Rows = 1 .. Len(options)
    BY <1>1, OnTheMenu
  <2> QED
    BY <2>1, <2>2
<1>5. IF known = << >> \/ (~Question.multiple /\ Len(numbers) > 1)
        THEN Take(Free, {})
        ELSE Take(IF Question.multiple THEN Many(ids) ELSE One(ids[1]), Range(ids))
  BY DEF Line
<1>6. DOMAIN ids = 1 .. Len(known) /\ ids = [i \in DOMAIN ids |-> ids[i]]
      /\ \A i \in 1 .. Len(known) : ids[i] = options[known[i]]
  OBVIOUS
<1> HIDE DEF ids, known
<1>7. ids \in Seq(Range(options)) /\ Len(ids) = Len(known)
  <2> HIDE DEF options
  <2> QED
    BY <1>2, <1>4, <1>6, OptionsOfRows
<1>8. CASE known = << >> \/ (~Question.multiple /\ Len(numbers) > 1)
  BY <1>1, <1>5, <1>8, FreeFits, TakeKeeps
<1>9. CASE known # << >> /\ Question.multiple
  <2>1. /\ IsAnswer(Many(ids)) /\ Many(ids).ids = ids
        /\ Many(ids).text = Labels(ids) /\ Many(ids).text # Typed
    BY <1>7, ManyIs
  <2>2. Fits(client, Many(ids), Range(ids), Question)
    BY <1>1, <1>7, <1>9, <2>1 DEF Fits
  <2> QED
    BY <1>1, <1>5, <1>9, <2>2, TakeKeeps
<1>10. CASE known # << >> /\ ~Question.multiple /\ ~ Len(numbers) > 1
  <2>1. Len(known) = 1 /\ known[1] \in 1 .. Len(options)
    <3>1. \A S, s : s \in Seq(S) /\ s # << >> => Len(s) \in Nat /\ Len(s) >= 1 /\ s[1] \in S
      OBVIOUS
    <3>2. Len(known) \in Nat /\ Len(known) >= 1 /\ known[1] \in 1 .. Len(options)
      BY <1>4, <1>10, <3>1
    <3>3. Len(known) <= Len(numbers) /\ Len(numbers) \in Nat /\ ~ Len(numbers) > 1
      BY <1>3, <1>4, <1>10
    <3>4. Len(known) = 1
      <4>1. \A m, n : m \in Nat /\ n \in Nat /\ m >= 1 /\ m <= n /\ ~ n > 1 => m = 1
        OBVIOUS
      <4> QED
        BY <3>2, <3>3, <4>1, Zenon
    <3> QED
      BY <3>2, <3>4
  <2>2. ids[1] = options[known[1]] /\ DOMAIN ids = {1}
    BY <1>6, <2>1
  <2>3. Range(ids) = {options[known[1]]}
    BY <2>2 DEF Range
  <2>4. IsQuestion(Question)
    BY <1>1, OnTheMenu
  <2>5. Fits(client, One(options[known[1]]), {options[known[1]]}, Question)
    BY <2>1, <2>4, OneFits
  <2> QED
    BY <1>1, <1>5, <1>10, <2>2, <2>3, <2>5, TakeKeeps
<1> QED
  BY <1>8, <1>9, <1>10

\* A reply to the API holds what the client put into it.
LEMMA ReplyKeeps ==
    ASSUME ClarificationInvariant, NEW items, NEW list, Reply(items, list),
           items \in Seq(Range(items)),
           \A i \in 1 .. Len(items) : IsAnswer(items[i]) /\ (list \/ items[i].text # << >>)
    PROVE  ClarificationInvariant'
<1>1. /\ client' = "web" /\ request' = request /\ at' = "sent"
      /\ answers' = items /\ listed' = list
      /\ meant' = [i \in 1 .. Len(items) |-> Range(items[i].ids)]
  BY DEF Reply
<1>2. ReplyInvariant'
  <2>1. \A i \in 1 .. Len(items) : Range(items[i].ids) = meant'[i]
    BY <1>1
  <2> QED
    BY <1>1, <2>1 DEF ReplyInvariant
<1> QED
  BY <1>1, <1>2 DEF ClarificationInvariant

LEMMA PostKeeps == ClarificationInvariant /\ Post => ClarificationInvariant'
<1> SUFFICES ASSUME ClarificationInvariant, Post PROVE ClarificationInvariant'
  OBVIOUS
<1>1. ASSUME NEW items \in BoundedSeq(Items, MaxItems), Reply(items, TRUE)
      PROVE  ClarificationInvariant'
  <2>1. PICK n \in 0 .. MaxItems : items \in [1 .. n -> Items]
    BY <1>1 DEF BoundedSeq, SeqOf
  <2>2. n \in Nat
    BY ItemsAssumption
  <2>3. items \in Seq(Items) /\ Len(items) = n
    BY <2>1, <2>2, IsSeqOf
  <2>4. \A i \in 1 .. Len(items) : IsAnswer(items[i])
    BY <2>1, <2>3, ItemsAssumption
  <2>5. items \in Seq(Range(items))
    <3>1. items \in [1 .. n -> Range(items)]
      BY <2>1 DEF Range
    <3> QED
      BY <2>2, <3>1, IsSeqOf
  <2> QED
    BY <1>1, <2>4, <2>5, ReplyKeeps
<1>2. ASSUME NEW item \in Items, item.text # << >>, Reply(<< Payload(item) >>, FALSE)
      PROVE  ClarificationInvariant'
  <2> DEFINE sent  == Payload(item)
             items == << sent >>
  <2>1. IsAnswer(item)
    BY <1>2, ItemsAssumption
  <2>2. IsAnswer(sent) /\ sent.text # << >>
    BY <1>2, <2>1 DEF Payload, IsAnswer
  <2> HIDE DEF sent
  <2>3. Len(items) = 1 /\ items[1] = sent /\ items \in Seq(Range(items))
    BY DEF Range
  <2>4. \A i \in 1 .. Len(items) : IsAnswer(items[i]) /\ items[i].text # << >>
    BY <2>2, <2>3
  <2> QED
    BY <1>2, <2>3, <2>4, ReplyKeeps DEF sent
<1> QED
  BY <1>1, <1>2 DEF Post

-----------------------------------------------------------------------------
(***************************************************************************)
(* The answers of a console fit the questions they answer (ui.py, the loop *)
(* of _select_question_batch).                                             *)
(***************************************************************************)
LEMMA NoAnswersYet == Init => ClarificationInvariant
<1> SUFFICES ASSUME Init PROVE ClarificationInvariant
  OBVIOUS
<1>1. /\ request \in Requests /\ client \in {"terminal", "pipe", "web"}
      /\ at = Opening(request.questions[1])
      /\ selected = 1 /\ checked = {}
      /\ answers = << >> /\ listed = request.batch /\ meant = << >>
  BY DEF Init
<1>2. /\ request.questions \in Seq(Range(request.questions)) /\ request.questions # << >>
      /\ \A q \in Range(request.questions) : IsQuestion(q)
  BY <1>1, RequestsAssumption
<1>3. Len(request.questions) \in Nat /\ Len(request.questions) >= 1
  BY <1>2
<1>4. Len(answers) = 0 /\ Len(meant) = 0
      /\ answers \in Seq(Range(answers)) /\ meant \in Seq(Range(meant))
  BY <1>1
<1>5. AnswersInvariant
  BY <1>3, <1>4 DEF AnswersInvariant
<1>6. Question = request.questions[1] /\ IsQuestion(Question)
  <2>1. request.questions[1] \in Range(request.questions)
    BY <1>2, <1>3 DEF Range
  <2> QED
    BY <1>2, <1>4, <2>1 DEF Question
<1>7. at \in {"menu", "prompt"}
      /\ (at = "menu" => Question.options # << >>)
      /\ (at = "prompt" => Question.options = << >>)
  BY <1>1, <1>6, OpeningOf
<1>8. at = "menu" => selected \in 1 .. MaxRow
  <2>1. Question.options \in Seq(Range(Question.options))
    BY <1>6 DEF IsQuestion
  <2>2. at = "menu" => Len(Question.options) \in Nat /\ Len(Question.options) >= 1
    BY <1>7, <2>1
  <2> QED
    BY <1>1, <2>2 DEF MaxRow, Other
<1>9. MenuInvariant
  BY <1>1, <1>7, <1>8 DEF MenuInvariant
<1>10. ConsoleInvariant
  BY <1>1, <1>3, <1>4, <1>5, <1>7, <1>9 DEF ConsoleInvariant
<1>11. ReplyInvariant
  BY <1>1, <1>7 DEF ReplyInvariant
<1> QED
  BY <1>1, <1>7, <1>10, <1>11 DEF ClarificationInvariant

LEMMA KeepsClarificationInvariant ==
    ClarificationInvariant /\ [Next]_vars => ClarificationInvariant'
<1> SUFFICES ASSUME ClarificationInvariant, [Next]_vars PROVE ClarificationInvariant'
  OBVIOUS
<1>1. CASE Up
  BY <1>1, UpKeeps
<1>2. CASE Down
  BY <1>2, DownKeeps
<1>3. CASE Space
  BY <1>3, SpaceKeeps
<1>4. CASE Enter
  BY <1>4, EnterKeeps
<1>5. CASE OtherAnswer
  BY <1>5, OtherAnswerKeeps
<1>6. CASE Write
  BY <1>6, WriteKeeps
<1>7. CASE Post
  BY <1>7, PostKeeps
<1>8. ASSUME NEW row \in 1 .. 9, Digit(row)
      PROVE  ClarificationInvariant'
  BY <1>8, DigitKeeps
<1>9. ASSUME NEW numbers \in Lines, Line(numbers)
      PROVE  ClarificationInvariant'
  BY <1>9, LineKeeps
<1>10. CASE UNCHANGED vars
  <2>1. UNCHANGED <<request, client, at, selected, checked, answers, listed, meant>>
    BY <1>10 DEF vars
  <2>2. MenuInvariant => MenuInvariant'
    BY <2>1, SameQuestion DEF MenuInvariant
  <2>3. ConsoleInvariant => ConsoleInvariant'
    BY <2>1, <2>2, SameQuestion DEF ConsoleInvariant
  <2>4. ReplyInvariant => ReplyInvariant'
    BY <2>1 DEF ReplyInvariant
  <2> QED
    BY <2>1, <2>3, <2>4 DEF ClarificationInvariant
<1> QED
  BY <1>1, <1>2, <1>3, <1>4, <1>5, <1>6, <1>7, <1>8, <1>9, <1>10 DEF Next

\* On a console the pointer and the marks never leave the question they belong to, and
\* what is sent holds one answer per question, the options of each as they were marked.
THEOREM MenusStayApart == Spec => []ClarificationInvariant
<1> QED
  BY NoAnswersYet, KeepsClarificationInvariant, PTL DEF Spec

\* Every answer of a console names its own question and chooses among the options of that
\* one, only one unless several may be chosen; a terminal gives each at most once and in
\* order, and takes a typed answer only where one is allowed.
THEOREM AnswersAreFitting == Spec => []AnswersFitTheirQuestions
<1>1. ASSUME ClarificationInvariant, client # "web" PROVE AnswersFitTheirQuestions
  <2>1. \A i \in 1 .. Len(answers) : /\ Fits(client, answers[i], meant[i], request.questions[i])
                                    /\ Names(answers[i], request.questions[i])
    BY <1>1 DEF ClarificationInvariant, ConsoleInvariant, AnswersInvariant
  <2>2. ASSUME NEW answer, NEW marked, NEW question,
               Fits(client, answer, marked, question), Names(answer, question)
        PROVE  /\ request.batch => answer.question = question.id
               /\ Range(answer.ids) \subseteq Range(question.options)
               /\ ~question.multiple => Len(answer.ids) <= 1
               /\ client = "terminal" =>
                    /\ InOrder(answer.ids, question.options)
                    /\ answer.ids = << >> => question.free \/ question.options = << >>
    <3>1. answer.ids \in Seq(Range(question.options))
      BY <2>2 DEF Fits
    <3>2. Range(answer.ids) \subseteq Range(question.options)
      BY <3>1 DEF Range
    <3> QED
      BY <2>2, <3>2 DEF Fits, Names
  <2> QED
    BY <2>1, <2>2 DEF AnswersFitTheirQuestions
<1>2. ClarificationInvariant => AnswersFitTheirQuestions
  BY <1>1 DEF AnswersFitTheirQuestions
<1> QED
  BY <1>2, MenusStayApart, PTL

-----------------------------------------------------------------------------
(***************************************************************************)
(* What is read of them: the sentence for the model (graph.py) and the     *)
(* line of the chat (storage.py).                                          *)
(***************************************************************************)
LEMMA LabelsAreMarked ==
    ASSUME NEW answer, answer.ids \in Seq(Range(answer.ids)), NEW question
    PROVE  /\ Range(LabelsOf(answer, question)) = {LabelIn(question, o) : o \in Range(answer.ids)}
           /\ answer.ids # << >> => LabelsOf(answer, question) # << >>
           /\ answer.ids \in Seq(Range(question.options)) =>
                LabelsOf(answer, question) = Labels(answer.ids)
<1>1. DOMAIN answer.ids = 1 .. Len(answer.ids) /\ Len(answer.ids) \in Nat
      /\ (answer.ids # << >> => Len(answer.ids) >= 1)
  OBVIOUS
<1>2. Range(LabelsOf(answer, question)) = {LabelIn(question, o) : o \in Range(answer.ids)}
  BY <1>1 DEF LabelsOf, Range
<1>3. ASSUME answer.ids # << >> PROVE LabelsOf(answer, question) # << >>
  <2>1. 1 \in DOMAIN LabelsOf(answer, question)
    BY <1>1, <1>3 DEF LabelsOf
  <2>2. DOMAIN << >> = {}
    OBVIOUS
  <2> QED
    BY <2>1, <2>2
<1>4. ASSUME answer.ids \in Seq(Range(question.options))
      PROVE  LabelsOf(answer, question) = Labels(answer.ids)
  <2>1. \A i \in 1 .. Len(answer.ids) : answer.ids[i] \in Range(question.options)
    BY <1>1, <1>4
  <2> QED
    BY <2>1 DEF LabelsOf, LabelIn, Labels
<1> QED
  BY <1>2, <1>3, <1>4

\* Where no two questions have one id, the question that is found is the one with the id.
LEMMA FoundIsTheQuestion ==
    ASSUME DistinctIds, NEW id, NEW j \in Found(id)
    PROVE  /\ request.questions[Max(Found(id))] = request.questions[j]
           /\ request.questions[j].id = id
<1>1. j \in 1 .. Len(request.questions) /\ Id(j) = id
  BY DEF Found
<1>2. Found(id) = {j}
  BY <1>1 DEF Found, DistinctIds
<1>3. j \in Int
  BY <1>1
<1>4. Max({j}) = j
  BY <1>3 DEF Max
<1> QED
  BY <1>1, <1>2, <1>4 DEF Id

\* On a console an answer is read with the question at its place.
LEMMA ReadWithItsQuestion ==
    ASSUME ClarificationInvariant, client # "web", DistinctIds, NEW i \in 1 .. Len(answers)
    PROVE  ~NotFound(i) /\ AskedBy(i) = request.questions[i]
<1>1. /\ listed = request.batch /\ Names(answers[i], request.questions[i])
      /\ Len(answers) <= Len(request.questions)
  BY DEF ClarificationInvariant, ConsoleInvariant, AnswersInvariant
<1>2. i \in 1 .. Len(request.questions)
  BY <1>1, QuestionAtHand
<1>3. CASE request.batch
  <2>1. request.questions[i] \in Range(request.questions)
    BY <1>2, QuestionAtHand DEF Range
  <2>2. request.questions[i].id # NoId
    BY <2>1, RequestsAssumption DEF ClarificationInvariant, IsQuestion
  <2>3. QuestionId(i) = Id(i)
    BY <1>1, <1>3, <2>2 DEF QuestionId, Names, Id
  <2>4. i \in Found(QuestionId(i))
    BY <1>2, <1>3, <2>3 DEF Found
  <2> QED
    BY <1>1, <1>3, <2>4, FoundIsTheQuestion DEF NotFound, AskedBy
<1>4. CASE ~request.batch
  <2>1. Len(request.questions) = 1
    BY <1>4, RequestsAssumption DEF ClarificationInvariant
  <2>2. i = 1
    BY <1>2, <2>1
  <2> QED
    BY <1>1, <1>4, <2>2 DEF NotFound, AskedBy
<1> QED
  BY <1>3, <1>4

\* An answer that was found is read with a question that has the id it names.
LEMMA SameQuestionRead ==
    ASSUME DistinctIds, NEW i \in 1 .. Len(answers), ~NotFound(i)
    PROVE  ModelReads(i).question \subseteq {AskedBy(i).id}
<1>1. CASE ~listed
  BY <1>1 DEF ModelReads
<1>2. CASE listed
  <2>1. PICK j : j \in Found(QuestionId(i))
    BY <1>2 DEF NotFound
  <2>2. AskedBy(i).id = QuestionId(i)
    BY <1>2, <2>1, FoundIsTheQuestion DEF AskedBy
  <2> QED
    BY <1>2, <2>2 DEF ModelReads, QuestionId
<1> QED
  BY <1>1, <1>2

\* The model reads the option ids that were marked or posted, and the chat their labels,
\* for the question that is named, unless something was written instead.
THEOREM MarksAreRead == Spec => []BothReadWhatWasMarked
<1>1. ASSUME ClarificationInvariant, at = "sent", DistinctIds, NEW i \in 1 .. Len(answers)
      PROVE  LET model  == ModelReads(i)
                 chat   == ChatReads(i)
                 labels == {LabelIn(chat.question, o) : o \in meant[i]}
             IN  /\ Range(model.ids) = meant[i]
                 /\ client # "web" => ~NotFound(i) /\ chat.question = request.questions[i]
                 /\ ~NotFound(i) =>
                      /\ model.question \subseteq {chat.question.id}
                      /\ meant[i] # {} /\ (client # "web" \/ answers[i].text = << >>) =>
                           Range(chat.text) = labels
                      /\ chat.labels # << >> => Range(chat.labels) = labels
  <2> DEFINE answer   == answers[i]
             question == AskedBy(i)
             read     == LabelsOf(answer, question)
             labels   == {LabelIn(question, o) : o \in meant[i]}
  <2>1. /\ answer.ids \in Seq(Range(answer.ids)) /\ Range(answer.ids) = meant[i]
    <3>1. CASE client = "web"
      BY <1>1, <3>1 DEF ClarificationInvariant, ReplyInvariant, IsAnswer
    <3>2. CASE client # "web"
      BY <1>1, <3>2 DEF ClarificationInvariant, ConsoleInvariant, AnswersInvariant, Fits, IsAnswer
    <3> QED
      BY <3>1, <3>2
  <2>2. Range(read) = labels /\ (meant[i] # {} => read # << >>)
    <3>1. Range(<< >>) = {}
      BY DEF Range
    <3> QED
      BY <2>1, <3>1, LabelsAreMarked
  <2>3. ASSUME client # "web"
        PROVE  /\ ~NotFound(i) /\ question = request.questions[i]
               /\ meant[i] # {} => answer.text = read
    <3>1. ~NotFound(i) /\ question = request.questions[i]
      BY <1>1, <2>3, ReadWithItsQuestion
    <3>2. Fits(client, answer, meant[i], question)
      BY <1>1, <2>3, <3>1 DEF ClarificationInvariant, ConsoleInvariant, AnswersInvariant
    <3>3. read = Labels(answer.ids)
      BY <2>1, <3>2, LabelsAreMarked DEF Fits
    <3> QED
      BY <3>1, <3>2, <3>3 DEF Fits
  <2>4. /\ ChatReads(i).question = question
        /\ ~NotFound(i) => /\ ChatReads(i).labels \in {<< >>, read}
                           /\ answer.text = << >> /\ read # << >> => ChatReads(i).text = read
                           /\ answer.text # << >> => ChatReads(i).text = answer.text
    BY DEF ChatReads
  <2>5. ModelReads(i).ids = answer.ids
    BY DEF ModelReads
  <2>6. ~NotFound(i) => ModelReads(i).question \subseteq {question.id}
    BY <1>1, SameQuestionRead
  <2>7. ASSUME ~NotFound(i), meant[i] # {}, client # "web" \/ answer.text = << >>
        PROVE  ChatReads(i).text = read
    BY <2>2, <2>3, <2>4, <2>7
  <2> HIDE DEF answer, read, question
  <2> QED
    BY <2>1, <2>2, <2>3, <2>4, <2>5, <2>6, <2>7 DEF answer
<1>2. ASSUME ClarificationInvariant PROVE BothReadWhatWasMarked
  BY <1>1, <1>2 DEF BothReadWhatWasMarked
<1> QED
  BY <1>2, MenusStayApart, PTL
=============================================================================
