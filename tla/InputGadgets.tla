---------------------------- MODULE InputGadgets ----------------------------
(***************************************************************************)
(* Editing on a page of the browser client: the text fields of a page      *)
(* (TextInputGadget, LargeTextInputGadget) save what the user types, one   *)
(* call for each save, and a navigation waits until the fields that are    *)
(* being edited are saved (afterAllSaved).  Calls are separate requests    *)
(* of the browser: the server may handle them, and their answers may come, *)
(* in any order, and a call may fail whether or not the server made the    *)
(* change, or before it does.                                              *)
(*                                                                         *)
(* The callbacks of a completed Future run before the next event of the    *)
(* page (ExecutionContext.global of Scala.js).  A navigation that goes on  *)
(* only begins to render: it waits for standardThings and for what its     *)
(* page does before it is rendered, while the old page stays on display,   *)
(* and several may be on their way at once.                                *)
(*                                                                         *)
(* What the user types is numbered: the text of a field is the number of   *)
(* its last edit.  The fields are those of the first page; the pages that  *)
(* follow have none of their own.                                          *)
(***************************************************************************)
EXTENDS Naturals, FiniteSetsExt

CONSTANTS
  Gadget,             \* the fields of the page
  Hash,               \* the pages that there are
  FirstHash,
  MaxEdits,           \* bounds
  MaxSaves,
  MaxFailures,
  MaxNavigations

ASSUME GadgetsAssumption ==
  /\ Gadget # {} /\ FirstHash \in Hash
  /\ MaxEdits \in Nat /\ MaxSaves \in Nat /\ MaxFailures \in Nat

VARIABLES
  text,               \* what each field shows
  changed,            \* the fields whose next blur is a "change"
  gadgetsBeingEdited,
  savePromise,        \* the navigation that waits in afterAllSaved, or 0
  fullHash,           \* the hash it goes to (FirstHash if none waits)
  calls,              \* the calls of alterProperty that are not answered yet
  requests,           \* what the server has yet to do for them
  saves,              \* how many times there was something to save
  stored,             \* what the server has for each field
  failures,           \* how many calls have failed, for the bound
  statusLine,
  hash,               \* window.location.hash
  currentHash,        \* _currentHash
  navigations,        \* how many navigations were begun; each is its number
  currentPage,        \* the navigation of currentPageRx, or 0
  rendering,          \* the navigations whose pages are not displayed yet
  shown,              \* the navigation whose page is displayed, or 0
  left,               \* the browser has gone to another URL
  unheard,            \* history: fields that were changed without a keypress
  overlapped,         \* history: fields that were changed while they were being saved
  typedOn,            \* history: whether the user has edited while it waited
  unreported          \* history: whether the last answer was an error that nobody shows

fieldVars == <<text, changed, unheard, overlapped, typedOn>>
promiseVars == <<savePromise, fullHash>>
callVars == <<calls, requests, saves, stored, failures>>
goVars == <<currentHash, currentPage, rendering, statusLine>>
pageVars == <<hash, navigations, shown, left>>
vars == <<fieldVars, gadgetsBeingEdited, promiseVars, callVars, goVars, pageVars, unreported>>

Edits == 0 .. MaxEdits

(* What a call may end in but PropertyChanged; OtherException is any that    *)
(* is not among the first three, also of a response that cannot be read.    *)
Errors == {"ValidationException", "GeneralChangeFailure", "PlayAjaxException", "OtherException"}
Call == [gadget : Gadget, n : 1 .. MaxSaves, result : {"none", "PropertyChanged"} \union Errors]
Request == [gadget : Gadget, n : 1 .. MaxSaves, value : Edits]

FieldTypes ==
  /\ text \in [Gadget -> Edits]
  /\ changed \subseteq Gadget /\ gadgetsBeingEdited \subseteq Gadget
  /\ unheard \subseteq Gadget /\ overlapped \subseteq Gadget
  /\ typedOn \in BOOLEAN

CallTypes ==
  /\ calls \subseteq Call /\ requests \subseteq Request
  /\ saves \in 0 .. MaxSaves
  /\ stored \in [Gadget -> Edits]
  /\ failures \in 0 .. MaxFailures
  /\ statusLine \in {"blank", "Saving...", "Saved", "error"}
  /\ unreported \in BOOLEAN

PageTypes ==
  /\ hash \in Hash /\ currentHash \in Hash /\ fullHash \in Hash
  /\ navigations \in Nat
  /\ savePromise \in 0 .. navigations /\ currentPage \in 0 .. navigations
  /\ shown \in 0 .. navigations /\ rendering \subseteq 1 .. navigations
  /\ left \in BOOLEAN

TypeOK == FieldTypes /\ CallTypes /\ PageTypes

Init ==
  /\ text = [g \in Gadget |-> 0]
  /\ changed = {}
  /\ gadgetsBeingEdited = {}
  /\ savePromise = 0
  /\ fullHash = FirstHash
  /\ calls = {}
  /\ requests = {}
  /\ saves = 0
  /\ stored = [g \in Gadget |-> 0]
  /\ failures = 0
  /\ statusLine = "blank"
  /\ hash = FirstHash
  /\ currentHash = FirstHash
  /\ navigations = 0
  /\ currentPage = 0
  /\ rendering = {}
  /\ shown = 0
  /\ left = FALSE
  /\ unheard = {}
  /\ overlapped = {}
  /\ typedOn = FALSE
  /\ unreported = FALSE

(* The fields can be used until another page is displayed. *)
OnDisplay == shown = 0 /\ ~ left

-----------------------------------------------------------------------------
(* The fields. *)

(* save(), for each field of a set: doSaveChange calls the server. *)
Save(gadgets) ==
  /\ saves < MaxSaves
  /\ saves' = saves + 1
  /\ calls' = calls \union {[gadget |-> g, n |-> saves', result |-> "none"] : g \in gadgets}
  /\ requests' = requests \union {[gadget |-> g, n |-> saves', value |-> text[g]] : g \in gadgets}
  /\ statusLine' = "Saving..."
  /\ UNCHANGED <<stored, failures>>

lastEdit == Max({text[g] : g \in Gadget})

BeingSaved(g) == \E c \in calls \union requests : c.gadget = g

(* The DOM changes the text; the next blur will be a "change". *)
Edit(g) ==
  /\ OnDisplay
  /\ lastEdit < MaxEdits
  /\ text' = [text EXCEPT ![g] = lastEdit + 1]
  /\ changed' = changed \union {g}
  /\ typedOn' = (typedOn \/ savePromise # 0)
  /\ UNCHANGED <<promiseVars, callVars, goVars, pageVars, unreported>>

(* A key that makes a character: beginChanges. *)
Keypress(g) ==
  /\ Edit(g)
  /\ gadgetsBeingEdited' = gadgetsBeingEdited \union {g}
  /\ unheard' = unheard \ {g}
  /\ overlapped' = IF BeingSaved(g) THEN overlapped \union {g} ELSE overlapped \ {g}

(* Backspace, Delete, cut, paste or drop: the browser raises no keypress. *)
QuietEdit(g) ==
  /\ Edit(g)
  /\ unheard' = IF g \in gadgetsBeingEdited THEN unheard ELSE unheard \union {g}
  /\ overlapped' = IF BeingSaved(g) THEN overlapped \union {g} ELSE overlapped
  /\ UNCHANGED gadgetsBeingEdited

(* The user leaves a field that he has edited. *)
Change(g) ==
  /\ OnDisplay
  /\ g \in changed
  /\ changed' = changed \ {g}
  /\ Save({g})
  /\ UNCHANGED <<text, unheard, overlapped, typedOn, gadgetsBeingEdited, promiseVars, currentHash,
                 currentPage, rendering, pageVars, unreported>>

(* Ctrl-S, in the large fields. *)
CtrlS(g) ==
  /\ OnDisplay
  /\ Save({g})
  /\ UNCHANGED <<fieldVars, gadgetsBeingEdited, promiseVars, currentHash, currentPage, rendering,
                 pageVars, unreported>>

-----------------------------------------------------------------------------
(* Navigations that go on. *)

(***************************************************************************)
(* What invokeFromHash does when all is saved: changeToPage, and rendering *)
(* begins - unless the page cannot be made.                                *)
(***************************************************************************)
GoesOn(n, target, line) ==
  /\ currentHash' = target
  /\ \/ /\ currentPage' = n
        /\ rendering' = rendering \union {n}
        /\ statusLine' = line
     \/ /\ statusLine' = "error"
        /\ UNCHANGED <<currentPage, rendering>>

StaysWith(line) ==
  /\ statusLine' = line
  /\ UNCHANGED <<currentHash, currentPage, rendering>>

(* The display is emptied and filled.  A page whose beforeRender fails, or  *)
(* never ends, never gets here.                                             *)
Display(n) ==
  /\ rendering' = rendering \ {n}
  /\ shown' = n
  /\ changed' = {}
  /\ statusLine' \in {statusLine, "blank"}
  /\ UNCHANGED <<text, unheard, overlapped, typedOn, gadgetsBeingEdited, promiseVars, callVars,
                 currentHash, currentPage, hash, navigations, left, unreported>>

-----------------------------------------------------------------------------
(* The calls. *)

Respond(r, result) ==
  calls' = {IF c.gadget = r.gadget /\ c.n = r.n /\ c.result = "none"
              THEN [c EXCEPT !.result = result] ELSE c : c \in calls}

NewCopy(r) == [stored EXCEPT ![r.gadget] = r.value]

(***************************************************************************)
(* alterProperty.  The change may be made although the client hears of an  *)
(* error, or hears nothing any more.                                       *)
(***************************************************************************)
ServerHandles(r) ==
  /\ ~ left
  /\ requests' = requests \ {r}
  /\ \/ /\ stored' = NewCopy(r)
        /\ Respond(r, "PropertyChanged")
        /\ UNCHANGED failures
     \/ /\ failures < MaxFailures
        /\ failures' = failures + 1
        /\ \/ \E error \in Errors : Respond(r, error) /\ UNCHANGED stored
           \/ \E error \in {"PlayAjaxException", "OtherException"} :
                Respond(r, error) /\ stored' = NewCopy(r)
  /\ UNCHANGED <<fieldVars, gadgetsBeingEdited, promiseVars, saves, goVars, pageVars, unreported>>

(* The ask of the controller times out; the server is still at it. *)
TimesOut(c) ==
  /\ ~ left /\ c.result = "none"
  /\ failures < MaxFailures
  /\ failures' = failures + 1
  /\ calls' = (calls \ {c}) \union {[c EXCEPT !.result = "PlayAjaxException"]}
  /\ UNCHANGED <<fieldVars, gadgetsBeingEdited, promiseVars, requests, saves, stored, goVars,
                 pageVars, unreported>>

PromiseKept(g) ==      \* mutant: savePromise is not reset
  /\ gadgetsBeingEdited' = gadgetsBeingEdited \ {g}
  /\ IF gadgetsBeingEdited' = {} /\ savePromise # 0
       THEN UNCHANGED promiseVars /\ GoesOn(savePromise, fullHash, "Saved")
       ELSE UNCHANGED promiseVars /\ StaysWith("Saved")

(* saveComplete, which may let a navigation go on. *)
saveComplete(g) ==
  /\ gadgetsBeingEdited' = gadgetsBeingEdited \ {g}
  /\ IF gadgetsBeingEdited' = {} /\ savePromise # 0
       THEN /\ savePromise' = 0 /\ fullHash' = FirstHash
            /\ GoesOn(savePromise, fullHash, "Saved")
       ELSE UNCHANGED promiseVars /\ StaysWith("Saved")

Succeeds(c) ==
  /\ c.result = "PropertyChanged"
  /\ unheard' = unheard \ {c.gadget}
  /\ unreported' = FALSE
  /\ saveComplete(c.gadget)

FailsAndCompletes(c) ==      \* mutant: a failed save also takes the field off the list
  /\ c.result \in Errors
  /\ unreported' = (c.result = "OtherException")
  /\ saveComplete(c.gadget)
  /\ UNCHANGED unheard

FailsQuietly(c) ==      \* mutant: a failed request leaves the status line, too
  /\ c.result \in Errors
  /\ StaysWith(CASE c.result = "ValidationException" -> "blank"
                 [] c.result = "GeneralChangeFailure" -> "error"
                 [] OTHER -> statusLine)
  /\ unreported' = (c.result = "OtherException")
  /\ UNCHANGED <<gadgetsBeingEdited, promiseVars, unheard>>

FailsVerbatim(c) ==      \* mutant: the status line shows the error itself
  /\ c.result \in Errors
  /\ StaysWith(c.result)
  /\ unreported' = (c.result = "OtherException")
  /\ UNCHANGED <<gadgetsBeingEdited, promiseVars, unheard>>

(***************************************************************************)
(* The promise of doSaveChange is never completed when a call fails:       *)
(* saveChange does not hear of it, and shows no validation error.  An      *)
(* exception that doSaveChange does not know ends in a MatchError, and the *)
(* status line stays what it was.                                          *)
(***************************************************************************)
Fails(c) ==
  /\ c.result \in Errors
  /\ StaysWith(CASE c.result = "ValidationException" -> "blank"
                 [] c.result = "OtherException" -> statusLine
                 [] OTHER -> "error")
  /\ unreported' = (c.result = "OtherException")
  /\ UNCHANGED <<gadgetsBeingEdited, promiseVars, unheard>>

Answer(c) ==
  /\ ~ left
  /\ Succeeds(c) \/ Fails(c)
  /\ calls' = calls \ {c}
  /\ UNCHANGED <<text, changed, overlapped, typedOn, requests, saves, stored, failures, pageVars>>

-----------------------------------------------------------------------------
(* Navigation. *)

JustWait(n) ==      \* mutant: the fields are not told to save
  IF gadgetsBeingEdited = {}
    THEN /\ GoesOn(n, hash', statusLine)
         /\ UNCHANGED <<promiseVars, callVars>>
    ELSE /\ savePromise' = n /\ fullHash' = hash'
         /\ UNCHANGED <<callVars, goVars>>

SaveAndGo(n) ==      \* mutant: the fields are told to save, but nobody waits
  IF gadgetsBeingEdited = {}
    THEN /\ GoesOn(n, hash', statusLine)
         /\ UNCHANGED <<promiseVars, callVars>>
    ELSE /\ Save(gadgetsBeingEdited)
         /\ GoesOn(n, hash', "Saving...")
         /\ UNCHANGED promiseVars

(* afterAllSaved: a navigation that waits already is forgotten. *)
afterAllSaved(n) ==
  IF gadgetsBeingEdited = {}
    THEN /\ GoesOn(n, hash', statusLine)
         /\ UNCHANGED <<promiseVars, callVars>>
    ELSE /\ savePromise' = n /\ fullHash' = hash'
         /\ Save(gadgetsBeingEdited)
         /\ UNCHANGED <<currentHash, currentPage, rendering>>

invokeFromHash ==
  /\ ~ left
  /\ navigations < MaxNavigations
  /\ navigations' = navigations + 1
  /\ afterAllSaved(navigations')
  /\ typedOn' = FALSE
  /\ UNCHANGED <<text, changed, unheard, overlapped, gadgetsBeingEdited, shown, left, unreported>>

(* A link, the back button, or showPage. *)
HashChange(h) ==
  /\ h \notin {hash, currentHash}
  /\ hash' = h
  /\ invokeFromHash

(* "Suppress redundant hashchange events" *)
RedundantHashChange ==
  /\ ~ left
  /\ hash # currentHash
  /\ hash' = currentHash
  /\ UNCHANGED <<fieldVars, gadgetsBeingEdited, promiseVars, callVars, goVars, navigations, shown, left,
                 unreported>>

(* The tabs of a page: the hashchange is a redundant one. *)
modifyPageParams(h) ==
  /\ ~ left
  /\ h # currentHash
  /\ hash' = h
  /\ currentHash' = h
  /\ UNCHANGED <<fieldVars, gadgetsBeingEdited, promiseVars, callVars, currentPage, rendering,
                 statusLine, navigations, shown, left, unreported>>

reload ==
  /\ hash' = hash
  /\ invokeFromHash

(* Another URL, without afterAllSaved; also fullReload, when the server has *)
(* a new version.  The client and all it knows are gone.                    *)
navigateTo ==
  /\ ~ left
  /\ left' = TRUE
  /\ changed' = {} /\ gadgetsBeingEdited' = {} /\ savePromise' = 0 /\ fullHash' = FirstHash
  /\ calls' = {} /\ rendering' = {} /\ statusLine' = "blank"
  /\ UNCHANGED <<text, unheard, overlapped, typedOn, requests, saves, stored, failures, currentHash,
                 currentPage, hash, navigations, shown, unreported>>

-----------------------------------------------------------------------------
Next ==
  \/ \E g \in Gadget : Keypress(g) \/ QuietEdit(g) \/ Change(g) \/ CtrlS(g)
  \/ \E r \in requests : ServerHandles(r)
  \/ \E c \in calls : TimesOut(c) \/ Answer(c)
  \/ \E n \in rendering : Display(n)
  \/ \E h \in Hash : HashChange(h) \/ modifyPageParams(h)
  \/ RedundantHashChange
  \/ reload
  \/ navigateTo

Spec == Init /\ [][Next]_vars

(* Each call has an answer, if only that of a timeout, and the page reads it. *)
Handled(c) == \E r \in requests : r.gadget = c.gadget /\ r.n = c.n /\ ServerHandles(r)

Fairness ==
  /\ WF_vars(\E c \in calls : c.result = "none" /\ (Handled(c) \/ TimesOut(c)))
  /\ WF_vars(\E c \in calls : Answer(c))

FairSpec == Spec /\ Fairness

-----------------------------------------------------------------------------
(* Properties. *)

(***************************************************************************)
(* What a field shows and the server lacks is on the list of the fields    *)
(* that are being edited - so that this navigation or the next one saves   *)
(* it - whether its save is under way, has failed, timed out or was made   *)
(* twice, and even when its page is no longer displayed.  The exceptions   *)
(* are the two ways in which the code loses a field: unheard, overlapped.  *)
(***************************************************************************)
UnsavedIsOnTheList ==
  \A g \in Gadget \ (unheard \union overlapped) :
    stored[g] # text[g] => g \in gadgetsBeingEdited \/ left

(* A navigation goes on. *)
Going == currentPage' # currentPage

(* A navigation goes on only when the server has what the fields show, with *)
(* the same exceptions.                                                     *)
GoingOnLosesNothing ==
  [][Going => \A g \in Gadget \ (unheard \union overlapped) : stored[g] = text[g]]_vars

(* Only the navigation that was asked for last goes on: none that waited    *)
(* does so after a later one was begun.                                     *)
LastNavigationGoesOn == [][Going => currentPage' = navigations']_vars

(* The status line does not go on to say "Saving..." when nothing is - but  *)
(* after an error that doSaveChange does not know.                          *)
SavingIsTrue == statusLine = "Saving..." => calls # {} \/ unreported

(* A navigation that waits for the fields to be saved goes on, or gives way *)
(* to a later one, unless a save fails, the user edits on or goes to        *)
(* another URL.                                                             *)
Disturbed == failures > 0 \/ typedOn \/ left
WaitingEnds == savePromise # 0 ~> savePromise = 0 \/ Disturbed

=============================================================================
