------------------------ MODULE InputGadgets_proofs ------------------------
(***************************************************************************)
(* For every number of fields, edits, saves, failures and navigations: an  *)
(* unsaved field stays on the list, a navigation goes on when all is saved *)
(* and is then the last one, and "Saving..." is true or an error is not    *)
(* shown.                                                                  *)
(***************************************************************************)
EXTENDS InputGadgets, WellFoundedInduction, TLAPS

(***************************************************************************)
(* What the server has yet to do for a field is what the field shows, and  *)
(* so is what it has done for a call that is not read yet; and a field     *)
(* that nobody edits is on the server.  Only the fields count whose last   *)
(* edit did not meet a save.                                               *)
(***************************************************************************)
CallsAreOfTheText ==
  \A g \in Gadget \ overlapped :
    /\ \A r \in requests : r.gadget = g => r.value = text[g]
    /\ \A c \in calls : c.gadget = g /\ c.result = "PropertyChanged" => stored[g] = text[g]
    /\ g \notin gadgetsBeingEdited \union unheard => stored[g] = text[g] \/ left

(* A navigation waits only for fields, and only if it is the last one. *)
PromiseIsOfTheLast ==
  savePromise # 0 => gadgetsBeingEdited # {} /\ savePromise = navigations

IInv ==
  /\ TypeOK
  /\ SavingIsTrue
  /\ CallsAreOfTheText
  /\ PromiseIsOfTheLast

-----------------------------------------------------------------------------
(* A set of numbers that is bounded has a maximum. *)
LEMMA MaxOfBounded ==
  ASSUME NEW n \in Nat, NEW S \in SUBSET (0 .. n), S # {}
  PROVE  Max(S) \in S /\ \A y \in S : Max(S) >= y
<1> DEFINE T == {n - x : x \in S}
<1>1. T \subseteq Nat /\ T # {}
  <2>1. PICK x \in S : TRUE
    OBVIOUS
  <2>2. n - x \in T
    OBVIOUS
  <2>3. \A y \in S : n - y \in Nat
    OBVIOUS
  <2> QED BY <2>2, <2>3
<1>2. PICK d \in T : \A e \in T : ~ (<<e, d>> \in OpToRel(<, Nat))
  BY <1>1, NatLessThanWellFounded, WFMin, Zenon
<1>3. PICK x \in S : d = n - x
  OBVIOUS
<1>4. \A y \in S : x >= y
  <2> SUFFICES ASSUME NEW y \in S PROVE x >= y
    OBVIOUS
  <2>1. n - y \in T /\ n - y \in Nat /\ d \in Nat
    OBVIOUS
  <2>2. ~ (n - y < d)
    BY <1>2, <2>1 DEF OpToRel
  <2> QED BY <1>3, <2>2
<1> QED BY <1>3, <1>4 DEF Max

LEMMA LastEdit ==
  ASSUME TypeOK
  PROVE  lastEdit \in Edits /\ \A g \in Gadget : lastEdit >= text[g]
<1> DEFINE S == {text[g] : g \in Gadget}
<1>1. S \subseteq 0 .. MaxEdits /\ S # {}
  BY GadgetsAssumption DEF TypeOK, FieldTypes, Edits
<1>2. Max(S) \in S /\ \A y \in S : Max(S) >= y
  BY <1>1, MaxOfBounded, GadgetsAssumption
<1> QED BY <1>1, <1>2 DEF lastEdit, Edits

-----------------------------------------------------------------------------
(* Each action keeps the invariant. *)

LEMMA InitIInv == Init => IInv
<1> SUFFICES ASSUME Init PROVE IInv
  OBVIOUS
<1>1. navigations = 0
  BY DEF Init
<1>2. 0 \in Edits
  BY GadgetsAssumption DEF Edits
<1>3. TypeOK
  <2>1. FieldTypes
    BY <1>2 DEF Init, FieldTypes
  <2>2. CallTypes
    <3>1. 0 \in 0 .. MaxSaves /\ 0 \in 0 .. MaxFailures
      BY GadgetsAssumption
    <3> QED BY <1>2, <3>1 DEF Init, CallTypes
  <2>3. PageTypes
    <3>1. navigations \in Nat /\ 0 \in 0 .. navigations
      BY <1>1
    <3>2. /\ hash \in Hash /\ currentHash \in Hash /\ fullHash \in Hash
          /\ left \in BOOLEAN
      BY GadgetsAssumption DEF Init
    <3>3. savePromise = 0 /\ currentPage = 0 /\ shown = 0 /\ rendering = {}
      BY DEF Init
    <3> QED BY <3>1, <3>2, <3>3 DEF PageTypes
  <2> QED BY <2>1, <2>2, <2>3 DEF TypeOK
<1>4. SavingIsTrue /\ CallsAreOfTheText /\ PromiseIsOfTheLast
  BY DEF Init, SavingIsTrue, CallsAreOfTheText, PromiseIsOfTheLast
<1> QED BY <1>3, <1>4 DEF IInv

LEMMA EditIInv ==
  ASSUME IInv, NEW g \in Gadget, Keypress(g) \/ QuietEdit(g)
  PROVE  IInv'
<1>1. Edit(g) /\ lastEdit + 1 \in Edits
  BY LastEdit, GadgetsAssumption DEF IInv, Keypress, QuietEdit, Edit, Edits
<1>2. /\ gadgetsBeingEdited \subseteq gadgetsBeingEdited'
      /\ gadgetsBeingEdited' \subseteq Gadget
      /\ unheard' \subseteq Gadget /\ overlapped' \subseteq Gadget
      /\ g \in gadgetsBeingEdited' \union unheard'
      /\ BeingSaved(g) => g \in overlapped'
      /\ \A h \in Gadget : h # g => /\ h \in overlapped' <=> h \in overlapped
                                    /\ h \in unheard' <=> h \in unheard
                                    /\ h \in gadgetsBeingEdited' <=> h \in gadgetsBeingEdited
  BY DEF IInv, TypeOK, FieldTypes, Keypress, QuietEdit
<1>3. TypeOK'
  BY <1>1, <1>2 DEF IInv, TypeOK, FieldTypes, CallTypes, PageTypes, Edit, promiseVars, callVars,
      goVars, pageVars
<1>4. SavingIsTrue'
  BY <1>1 DEF IInv, SavingIsTrue, Edit, callVars, goVars
<1>5. CallsAreOfTheText'
  <2>1. /\ text' = [text EXCEPT ![g] = lastEdit + 1]
        /\ UNCHANGED <<requests, calls, stored, left>>
    BY <1>1 DEF Edit, callVars, pageVars
  <2> QED BY <1>2, <2>1 DEF IInv, TypeOK, FieldTypes, CallTypes, PageTypes, CallsAreOfTheText,
      BeingSaved
<1>6. PromiseIsOfTheLast'
  BY <1>1, <1>2 DEF IInv, PromiseIsOfTheLast, Edit, promiseVars, pageVars
<1> QED BY <1>3, <1>4, <1>5, <1>6 DEF IInv

(* The fields that are saved send what they show. *)
LEMMA SaveIInv ==
  ASSUME IInv, NEW gadgets \in SUBSET Gadget, gadgets # {}, Save(gadgets),
         UNCHANGED <<text, gadgetsBeingEdited, overlapped, unheard, left>>
  PROVE  /\ CallsAreOfTheText' /\ SavingIsTrue'
         /\ calls' \subseteq Call /\ requests' \subseteq Request /\ saves' \in 0 .. MaxSaves
<1> DEFINE NewCall(g) == [gadget |-> g, n |-> saves', result |-> "none"]
           NewRequest(g) == [gadget |-> g, n |-> saves', value |-> text[g]]
<1>1. saves' \in 1 .. MaxSaves
  <2>1. saves \in 0 .. MaxSaves /\ saves < MaxSaves /\ saves' = saves + 1
    BY DEF IInv, TypeOK, CallTypes, Save
  <2> QED BY <2>1, GadgetsAssumption
<1>2. \A g \in gadgets : NewCall(g) \in Call /\ NewRequest(g) \in Request
  BY <1>1 DEF IInv, TypeOK, FieldTypes, CallTypes, Call, Request
<1>3. /\ calls' = calls \union {NewCall(g) : g \in gadgets}
      /\ requests' = requests \union {NewRequest(g) : g \in gadgets}
  BY DEF Save
<1>4. CallsAreOfTheText'
  BY <1>3 DEF IInv, CallsAreOfTheText, Save
<1>5. SavingIsTrue'
  BY <1>3 DEF SavingIsTrue
<1>6. calls' \subseteq Call /\ requests' \subseteq Request
  BY <1>2, <1>3 DEF IInv, TypeOK, CallTypes
<1> QED BY <1>1, <1>4, <1>5, <1>6

LEMMA ChangeIInv ==
  ASSUME IInv, NEW g \in Gadget, Change(g) \/ CtrlS(g)
  PROVE  IInv'
<1>1. /\ Save({g}) /\ changed' \subseteq changed
      /\ UNCHANGED <<text, unheard, overlapped, typedOn, gadgetsBeingEdited, promiseVars,
                     currentHash, currentPage, rendering, pageVars, unreported>>
  BY DEF Change, CtrlS, fieldVars
<1>2. /\ CallsAreOfTheText' /\ SavingIsTrue'
      /\ calls' \subseteq Call /\ requests' \subseteq Request /\ saves' \in 0 .. MaxSaves
  BY <1>1, SaveIInv DEF pageVars
<1>3. TypeOK'
  BY <1>1, <1>2 DEF IInv, TypeOK, FieldTypes, CallTypes, PageTypes, Save, promiseVars, pageVars
<1>4. PromiseIsOfTheLast'
  BY <1>1 DEF IInv, PromiseIsOfTheLast, promiseVars, pageVars
<1> QED BY <1>2, <1>3, <1>4 DEF IInv

(* A result reaches one call at most, and no call is lost or made by it. *)
LEMMA RespondKeeps ==
  ASSUME IInv, NEW r \in requests, NEW result \in {"PropertyChanged"} \union Errors,
         Respond(r, result)
  PROVE  /\ calls' \subseteq Call
         /\ calls = {} => calls' = {}
         /\ calls' = {} => calls = {}
         /\ \A d \in calls' : \/ d \in calls
                              \/ (d.gadget = r.gadget /\ d.result = result)
<1> DEFINE New(c) == IF c.gadget = r.gadget /\ c.n = r.n /\ c.result = "none"
                       THEN [c EXCEPT !.result = result] ELSE c
<1>1. calls' = {New(c) : c \in calls}
  BY DEF Respond
<1>2. ASSUME NEW c \in calls
      PROVE  New(c) \in Call /\ (New(c) = c \/ (New(c).gadget = r.gadget /\ New(c).result = result))
  BY <1>2 DEF IInv, TypeOK, CallTypes, Call
<1> HIDE DEF New
<1> QED BY <1>1, <1>2

LEMMA ServerHandlesIInv ==
  ASSUME IInv, NEW r \in requests, ServerHandles(r)
  PROVE  IInv'
<1>1. r \in Request
  BY DEF IInv, TypeOK, CallTypes
<1>2. PICK result \in {"PropertyChanged"} \union Errors :
        /\ Respond(r, result)
        /\ stored' = NewCopy(r) \/ (result # "PropertyChanged" /\ stored' = stored)
        /\ failures' \in 0 .. MaxFailures
  <2>1. /\ "PropertyChanged" \notin Errors
        /\ {"PlayAjaxException", "OtherException"} \subseteq Errors
    BY DEF Errors
  <2>2. failures' \in 0 .. MaxFailures
    BY GadgetsAssumption DEF IInv, TypeOK, CallTypes, ServerHandles
  <2>3. \/ Respond(r, "PropertyChanged") /\ stored' = NewCopy(r)
        \/ \E error \in Errors : Respond(r, error) /\ stored' = stored
        \/ \E error \in Errors : Respond(r, error) /\ stored' = NewCopy(r)
    BY <2>1 DEF ServerHandles
  <2> QED BY <2>1, <2>2, <2>3
<1>3. /\ requests' = requests \ {r}
      /\ UNCHANGED <<fieldVars, gadgetsBeingEdited, promiseVars, saves, goVars, pageVars, unreported>>
  BY DEF ServerHandles
<1>4. /\ calls' \subseteq Call
      /\ calls' = {} => calls = {}
      /\ \A d \in calls' : \/ d \in calls
                           \/ (d.gadget = r.gadget /\ d.result = result)
  BY <1>2, RespondKeeps
<1>5. TypeOK'
  BY <1>1, <1>2, <1>3, <1>4
     DEF IInv, TypeOK, FieldTypes, CallTypes, PageTypes, Request, NewCopy, fieldVars,
         promiseVars, goVars, pageVars
<1>6. SavingIsTrue'
  BY <1>3, <1>4 DEF IInv, SavingIsTrue, goVars
<1>7. CallsAreOfTheText'
  BY <1>1, <1>2, <1>3, <1>4
     DEF IInv, TypeOK, FieldTypes, CallTypes, PageTypes, CallsAreOfTheText, Request, NewCopy,
         fieldVars, pageVars
<1>8. PromiseIsOfTheLast'
  BY <1>3 DEF IInv, PromiseIsOfTheLast, promiseVars, pageVars
<1> QED BY <1>5, <1>6, <1>7, <1>8 DEF IInv

LEMMA TimesOutIInv ==
  ASSUME IInv, NEW c \in calls, TimesOut(c)
  PROVE  IInv'
<1> DEFINE late == [c EXCEPT !.result = "PlayAjaxException"]
<1>1. late \in Call /\ late.result # "PropertyChanged"
  BY DEF IInv, TypeOK, CallTypes, Call, Errors
<1>2. calls' = (calls \ {c}) \union {late}
  BY DEF TimesOut
<1>3. TypeOK'
  <2>1. failures' \in 0 .. MaxFailures
    BY GadgetsAssumption DEF IInv, TypeOK, CallTypes, TimesOut
  <2>2. CallTypes'
    BY <1>1, <1>2, <2>1 DEF IInv, TypeOK, CallTypes, TimesOut, goVars
  <2>3. FieldTypes' /\ PageTypes'
    BY DEF IInv, TypeOK, FieldTypes, PageTypes, TimesOut, fieldVars, promiseVars, goVars,
       pageVars
  <2> QED BY <2>2, <2>3 DEF TypeOK
<1>4. SavingIsTrue'
  BY <1>2 DEF SavingIsTrue
<1>5. CallsAreOfTheText'
  BY <1>1, <1>2 DEF IInv, CallsAreOfTheText, TimesOut, fieldVars, pageVars
<1>6. PromiseIsOfTheLast'
  BY DEF IInv, PromiseIsOfTheLast, TimesOut, promiseVars, pageVars
<1> QED BY <1>3, <1>4, <1>5, <1>6 DEF IInv

LEMMA AnswerIInv ==
  ASSUME IInv, NEW c \in calls, Answer(c)
  PROVE  IInv'
<1>1. c \in Call
  BY DEF IInv, TypeOK, CallTypes
<1>2. /\ calls' = calls \ {c}
      /\ UNCHANGED <<text, changed, overlapped, typedOn, requests, saves, stored, failures, pageVars>>
  BY DEF Answer
<1>3. savePromise # 0 => savePromise \in 1 .. navigations
  BY DEF IInv, TypeOK, PageTypes
<1>4. CASE Succeeds(c)
  <2>1. /\ statusLine' \in {"Saved", "error"} /\ unreported' = FALSE
        /\ gadgetsBeingEdited' = gadgetsBeingEdited \ {c.gadget}
        /\ unheard' = unheard \ {c.gadget}
        /\ c.result = "PropertyChanged"
    BY <1>4 DEF Succeeds, saveComplete, GoesOn, StaysWith
  <2>2. /\ currentHash' \in Hash
        /\ currentPage' \in 0 .. navigations /\ rendering' \subseteq 1 .. navigations
        /\ savePromise' \in {0, savePromise} /\ fullHash' \in Hash
        /\ savePromise' # 0 => gadgetsBeingEdited' # {}
    BY <1>3, <1>4, GadgetsAssumption DEF IInv, TypeOK, PageTypes, Succeeds, saveComplete, GoesOn,
        StaysWith, promiseVars
  <2>3. TypeOK'
    <3>1. FieldTypes' /\ CallTypes'
      BY <1>2, <2>1 DEF IInv, TypeOK, FieldTypes, CallTypes
    <3>2. PageTypes'
      BY <1>2, <2>2 DEF IInv, TypeOK, PageTypes, pageVars
    <3> QED BY <3>1, <3>2 DEF TypeOK
  <2>4. SavingIsTrue'
    BY <2>1 DEF SavingIsTrue
  <2>5. CallsAreOfTheText'
    BY <1>1, <1>2, <2>1 DEF IInv, CallsAreOfTheText, Call, pageVars
  <2>6. PromiseIsOfTheLast'
    BY <1>2, <2>2 DEF IInv, PromiseIsOfTheLast, pageVars
  <2> QED BY <2>3, <2>4, <2>5, <2>6 DEF IInv
<1>5. CASE Fails(c)
  <2>1. /\ statusLine' \in {"blank", "error", statusLine}
        /\ statusLine' = "Saving..." => unreported'
        /\ unreported' \in BOOLEAN
        /\ UNCHANGED <<currentHash, currentPage, rendering, gadgetsBeingEdited, promiseVars, unheard>>
    BY <1>5 DEF Fails, StaysWith, Errors
  <2>2. TypeOK'
    BY <1>2, <2>1 DEF IInv, TypeOK, FieldTypes, CallTypes, PageTypes, promiseVars, pageVars
  <2>3. SavingIsTrue'
    BY <2>1 DEF SavingIsTrue
  <2>4. CallsAreOfTheText'
    BY <1>2, <2>1 DEF IInv, CallsAreOfTheText, pageVars
  <2>5. PromiseIsOfTheLast'
    BY <1>2, <2>1 DEF IInv, PromiseIsOfTheLast, promiseVars, pageVars
  <2> QED BY <2>2, <2>3, <2>4, <2>5 DEF IInv
<1> QED BY <1>4, <1>5 DEF Answer

LEMMA DisplayIInv ==
  ASSUME IInv, NEW n \in rendering, Display(n)
  PROVE  IInv'
<1>1. /\ n \in 1 .. navigations
      /\ statusLine' \in {statusLine, "blank"}
  BY DEF IInv, TypeOK, PageTypes, Display
<1>2. TypeOK'
  BY <1>1 DEF IInv, TypeOK, FieldTypes, CallTypes, PageTypes, Display, promiseVars, callVars
<1>3. SavingIsTrue'
  BY <1>1 DEF IInv, SavingIsTrue, Display, callVars
<1>4. CallsAreOfTheText' /\ PromiseIsOfTheLast'
  BY DEF IInv, CallsAreOfTheText, PromiseIsOfTheLast, Display, promiseVars, callVars
<1> QED BY <1>2, <1>3, <1>4 DEF IInv

LEMMA NavigationIInv ==
  ASSUME IInv, invokeFromHash, hash' \in Hash
  PROVE  IInv'
<1>1. navigations \in Nat /\ navigations' = navigations + 1
  BY DEF IInv, TypeOK, PageTypes, invokeFromHash
<1>2. /\ typedOn' = FALSE
      /\ UNCHANGED <<text, changed, unheard, overlapped, gadgetsBeingEdited, shown, left, unreported>>
  BY DEF invokeFromHash
<1>3. CASE gadgetsBeingEdited = {}
  <2>1. /\ GoesOn(navigations', hash', statusLine)
        /\ UNCHANGED <<promiseVars, calls, requests, saves, stored, failures>>
    BY <1>3 DEF invokeFromHash, afterAllSaved, callVars
  <2>2. /\ currentHash' \in Hash
        /\ currentPage' \in 0 .. navigations' /\ rendering' \subseteq 1 .. navigations'
        /\ statusLine' \in {statusLine, "error"}
        /\ savePromise' = 0 /\ fullHash' \in Hash
    <3>1. /\ currentHash \in Hash /\ savePromise' = 0 /\ fullHash' \in Hash
          /\ currentPage \in 0 .. navigations /\ rendering \subseteq 1 .. navigations
      BY <1>3, <2>1 DEF IInv, TypeOK, PageTypes, PromiseIsOfTheLast, promiseVars
    <3>2. /\ currentHash' = hash'
          /\ \/ currentPage' = navigations' /\ rendering' = rendering \union {navigations'}
             \/ UNCHANGED <<currentPage, rendering>>
          /\ statusLine' \in {statusLine, "error"}
      BY <2>1 DEF GoesOn
    <3>3. /\ 0 .. navigations \subseteq 0 .. navigations'
          /\ 1 .. navigations \subseteq 1 .. navigations'
          /\ navigations' \in 1 .. navigations'
          /\ navigations' \in 0 .. navigations'
      BY <1>1
    <3> QED BY <3>1, <3>2, <3>3
  <2>3. TypeOK'
    <3>1. FieldTypes' /\ CallTypes'
      BY <1>2, <2>1, <2>2 DEF IInv, TypeOK, FieldTypes, CallTypes
    <3>2. PageTypes'
      BY <1>1, <1>2, <2>2 DEF IInv, TypeOK, PageTypes
    <3> QED BY <3>1, <3>2 DEF TypeOK
  <2>4. SavingIsTrue'
    BY <1>2, <2>1, <2>2 DEF IInv, SavingIsTrue
  <2>5. CallsAreOfTheText' /\ PromiseIsOfTheLast'
    BY <1>2, <2>1, <2>2 DEF IInv, CallsAreOfTheText, PromiseIsOfTheLast
  <2> QED BY <2>3, <2>4, <2>5 DEF IInv
<1>4. CASE gadgetsBeingEdited # {}
  <2>1. /\ savePromise' = navigations' /\ fullHash' = hash' /\ Save(gadgetsBeingEdited)
        /\ UNCHANGED <<currentHash, currentPage, rendering>>
    BY <1>4 DEF invokeFromHash, afterAllSaved
  <2>2. /\ CallsAreOfTheText' /\ SavingIsTrue'
        /\ calls' \subseteq Call /\ requests' \subseteq Request /\ saves' \in 0 .. MaxSaves
    BY <1>2, <1>4, <2>1, SaveIInv DEF IInv, TypeOK, FieldTypes
  <2>3. TypeOK'
    <3>1. FieldTypes' /\ CallTypes'
      BY <1>2, <2>1, <2>2 DEF IInv, TypeOK, FieldTypes, CallTypes, Save
    <3>2. PageTypes'
      BY <1>1, <1>2, <2>1 DEF IInv, TypeOK, PageTypes
    <3> QED BY <3>1, <3>2 DEF TypeOK
  <2>4. PromiseIsOfTheLast'
    BY <1>1, <1>2, <1>4, <2>1 DEF PromiseIsOfTheLast
  <2> QED BY <2>2, <2>3, <2>4 DEF IInv
<1> QED BY <1>3, <1>4

(* What changes neither the fields nor the calls, or ends it all. *)
LEMMA OtherIInv ==
  ASSUME IInv, \/ \E h \in Hash : modifyPageParams(h)
               \/ RedundantHashChange
               \/ navigateTo
               \/ UNCHANGED vars
  PROVE  IInv'
<1>1. CASE \E h \in Hash : modifyPageParams(h)
  BY <1>1 DEF modifyPageParams, IInv, TypeOK, FieldTypes, CallTypes, PageTypes, SavingIsTrue,
      CallsAreOfTheText, PromiseIsOfTheLast,
              fieldVars, promiseVars, callVars
<1>2. CASE RedundantHashChange
  BY <1>2 DEF RedundantHashChange, IInv, TypeOK, FieldTypes, CallTypes, PageTypes, SavingIsTrue,
      CallsAreOfTheText,
              PromiseIsOfTheLast, fieldVars, promiseVars, callVars, goVars
<1>3. CASE navigateTo
  <2>1. TypeOK'
    BY <1>3, GadgetsAssumption DEF navigateTo, IInv, TypeOK, FieldTypes, CallTypes, PageTypes
  <2>2. SavingIsTrue' /\ CallsAreOfTheText' /\ PromiseIsOfTheLast'
    BY <1>3 DEF navigateTo, IInv, SavingIsTrue, CallsAreOfTheText, PromiseIsOfTheLast
  <2> QED BY <2>1, <2>2 DEF IInv
<1>4. CASE UNCHANGED vars
  BY <1>4 DEF vars, IInv, TypeOK, FieldTypes, CallTypes, PageTypes, SavingIsTrue,
      CallsAreOfTheText, PromiseIsOfTheLast, fieldVars,
              promiseVars, callVars, goVars, pageVars
<1> QED BY <1>1, <1>2, <1>3, <1>4

(* Every action keeps the invariant, and so does a step that changes nothing. *)
THEOREM InductiveInvariant == Spec => []IInv
<1>1. ASSUME IInv, [Next]_vars
      PROVE  IInv'
  <2> USE <1>1
  <2>1. CASE \E g \in Gadget : Keypress(g) \/ QuietEdit(g) \/ Change(g) \/ CtrlS(g)
    BY <2>1, EditIInv, ChangeIInv
  <2>2. CASE \E r \in requests : ServerHandles(r)
    BY <2>2, ServerHandlesIInv
  <2>3. CASE \E c \in calls : TimesOut(c) \/ Answer(c)
    BY <2>3, TimesOutIInv, AnswerIInv
  <2>4. CASE \E n \in rendering : Display(n)
    BY <2>4, DisplayIInv
  <2>5. CASE reload \/ \E h \in Hash : HashChange(h)
    <3>1. hash' \in Hash /\ invokeFromHash
      BY <2>5 DEF HashChange, reload, IInv, TypeOK, PageTypes
    <3> QED BY <3>1, NavigationIInv
  <2>6. CASE \/ \E h \in Hash : modifyPageParams(h)
             \/ RedundantHashChange
             \/ navigateTo
             \/ UNCHANGED vars
    BY <2>6, OtherIInv
  <2> QED BY <2>1, <2>2, <2>3, <2>4, <2>5, <2>6 DEF Next
<1> QED BY InitIInv, <1>1, PTL DEF Spec

-----------------------------------------------------------------------------
(* The state of the page has its type. *)
THEOREM TypeCorrect == Spec => []TypeOK
BY InductiveInvariant, PTL DEF IInv

(***************************************************************************)
(* The status line says "Saving..." only while a call is not answered, or  *)
(* after an error that InputGadget.doSaveChange does not know.             *)
(***************************************************************************)
THEOREM StatusLineIsTrue == Spec => []SavingIsTrue
BY InductiveInvariant, PTL DEF IInv

(***************************************************************************)
(* A field that is not saved is on gadgetsBeingEdited, unless it was       *)
(* edited without a keypress or while it was being saved.                  *)
(***************************************************************************)
THEOREM NothingIsForgotten == Spec => []UnsavedIsOnTheList
<1>1. IInv => UnsavedIsOnTheList
  BY DEF IInv, CallsAreOfTheText, UnsavedIsOnTheList
<1> QED BY InductiveInvariant, <1>1, PTL

(* Which steps let a navigation go on: it is the last one, nobody is edited *)
(* any more, and the last save, if there was one, has succeeded.            *)
LEMMA WhatGoesOn ==
  ASSUME IInv, Next, Going
  PROVE  /\ currentPage' = navigations'
         /\ ~ left
         /\ UNCHANGED <<text, stored>>
         /\ \A g \in Gadget \ (unheard \union overlapped) : stored[g] = text[g]
<1>1. CASE \E c \in calls : Answer(c)
  <2>1. PICK c \in calls : Answer(c)
    BY <1>1
  <2>2. Succeeds(c) /\ UNCHANGED <<text, stored, navigations>> /\ ~ left
    BY <2>1 DEF Going, Answer, Fails, StaysWith, pageVars
  <2>3. /\ c.result = "PropertyChanged"
        /\ gadgetsBeingEdited \subseteq {c.gadget}
        /\ savePromise # 0 /\ currentPage' = savePromise
    BY <2>2 DEF Going, Succeeds, saveComplete, GoesOn, StaysWith
  <2> QED BY <2>2, <2>3 DEF IInv, CallsAreOfTheText, PromiseIsOfTheLast
<1>2. CASE invokeFromHash
  <2>1. /\ gadgetsBeingEdited = {} /\ currentPage' = navigations' /\ ~ left
        /\ UNCHANGED <<text, stored>>
    BY <1>2 DEF Going, invokeFromHash, afterAllSaved, GoesOn, callVars
  <2> QED BY <2>1 DEF IInv, CallsAreOfTheText
<1> QED BY <1>1, <1>2 DEF Going, Next, Keypress, QuietEdit, Edit, Change, CtrlS, ServerHandles,
              TimesOut, Display, HashChange, RedundantHashChange, modifyPageParams, reload,
              navigateTo, goVars

(***************************************************************************)
(* A navigation goes on only when all that was typed is on the server, but *)
(* for the fields that were edited without a keypress or while they were   *)
(* being saved (InputGadgets.afterAllSaved).                               *)
(***************************************************************************)
THEOREM NavigationsSaveFirst == Spec => GoingOnLosesNothing
<1>1. ASSUME IInv, [Next]_vars
      PROVE  [Going => \A g \in Gadget \ (unheard \union overlapped) : stored[g] = text[g]]_vars
  BY <1>1, WhatGoesOn DEF Going, vars, goVars
<1> QED BY InductiveInvariant, <1>1, PTL DEF Spec, GoingOnLosesNothing

(***************************************************************************)
(* No navigation goes on after a later one was begun (savePromise of       *)
(* InputGadgets.scala holds one at most).                                  *)
(***************************************************************************)
THEOREM OnlyTheLastGoesOn == Spec => LastNavigationGoesOn
<1>1. ASSUME IInv, [Next]_vars
      PROVE  [Going => currentPage' = navigations']_vars
  BY <1>1, WhatGoesOn DEF Going, vars, goVars
<1> QED BY InductiveInvariant, <1>1, PTL DEF Spec, LastNavigationGoesOn
=============================================================================
