---------------------------- MODULE ClientsPage ----------------------------
(***************************************************************************)
(* The customers of a business as the staff look them up                   *)
(* (frontend/src/components/app/clientes): the filters, which are applied  *)
(* a while after the last key, the suggestions under a filter              *)
(* (client-suggest-input.tsx), the list (clientes-page.tsx) and the        *)
(* history of the customer chosen (client-detail-modal.tsx).               *)
(*                                                                         *)
(* None of the three requests is cancelled when another is made; only the  *)
(* timers are.  A text stands for the three filters one types, sort for    *)
(* the ones that are applied at once.                                      *)
(***************************************************************************)
EXTENDS Naturals, FiniteSets

CONSTANTS
    Texts, Blank,   \* what can be typed; Blank is the empty text
    Sorts,
    Clients, None,
    Names,          \* [Clients -> Texts], what a suggestion types
    Matches,        \* [Texts -> SUBSET Clients]
    Requests,       \* names of requests in flight
    MaxActs         \* bound: what the user does

\* null is no text and no customer; a suggestion types a text, the empty one is one.
ClientsPageAssumption ==
    /\ None \notin Texts \cup Clients
    /\ Blank \in Texts /\ Names \in [Clients -> Texts]

VARIABLES
    typed, applied, sort, page,
    timer,          \* the debounce of the filters is running
    shown,          \* the query whose answer is listed, or None
    loading,
    loads,          \* name -> [q, old] in flight, old if another was asked later
    suggested,      \* the text whose suggestions there are, or None
    listbox,        \* they are open
    skip,           \* skipSuggestRef
    wait,           \* the debounce of the suggestions is running
    searches,       \* [text, nr] of the searches in flight
    selected,       \* the customer whose history is open
    history,        \* the customer whose history is held
    fetching,       \* loading of the history
    histories,      \* customers of the requests in flight
    asked,          \* history: searches asked so far
    left,           \* history: the last one asked when a text was left that had
                    \* one, for a text that gets none
    late,           \* history: which answers came last though not asked last, and
                    \* "left" if the suggestions are of a text that was left
    acts

filters == <<typed, applied, sort, page, timer>>
list == <<shown, loading, loads>>
suggest == <<suggested, listbox, skip, wait, searches, asked, left>>
detail == <<selected, history, fetching, histories>>
vars == <<filters, list, suggest, detail, late, acts>>

Act == acts < MaxActs /\ acts' = acts + 1

NoLoad == [pc |-> "idle", q |-> None, old |-> FALSE]

Late(part, is) == late' = IF is THEN late \cup {part} ELSE late \ {part}

-----------------------------------------------------------------------------
(* The list *)

query == <<applied, sort, page>>

\* The effect on [load]: another query asks again, with a list or without.
LoadIfNew ==
    IF query' = query
    THEN UNCHANGED list
    ELSE /\ \E f \in Requests :
              /\ loads[f].pc = "idle"
              /\ loads' = [g \in Requests |->
                    IF g = f THEN [NoLoad EXCEPT !.pc = "sent", !.q = query']
                    ELSE [loads[g] EXCEPT !.old = loads[g].pc # "idle"]]
         /\ loading' = TRUE
         /\ UNCHANGED shown

ListAnswered(f) ==
    /\ loads[f].pc = "sent"
    /\ shown' = loads[f].q /\ loading' = FALSE
    /\ loads' = [loads EXCEPT ![f] = NoLoad]
    /\ Late("list", loads[f].old)
    /\ UNCHANGED <<filters, suggest, detail, acts>>

ListFails(f) ==
    /\ loads[f].pc = "sent"
    /\ loading' = FALSE
    /\ loads' = [loads EXCEPT ![f] = NoLoad]
    /\ late' = late \cup {"list"}
    /\ UNCHANGED <<filters, shown, suggest, detail, acts>>

-----------------------------------------------------------------------------
(* Suggestions *)

\* The effect on the text: it runs when the text is another one.
SuggestEffect(text, skips) ==
    IF text = typed
    THEN skip' = skips /\ UNCHANGED wait /\ suggested' = IF skips THEN None ELSE suggested
    ELSE IF skips
    THEN skip' = FALSE /\ suggested' = None /\ wait' = FALSE
    ELSE skip' = FALSE /\ wait' = (text # Blank)
         /\ suggested' = IF text = Blank THEN None ELSE suggested

SearchTimer ==
    /\ wait
    /\ wait' = FALSE
    /\ asked' = asked + 1
    /\ searches' = searches \cup {[text |-> typed, nr |-> asked + 1]}
    /\ UNCHANGED <<filters, list, suggested, listbox, skip, left, detail, late, acts>>

\* Those of the text of then, which open if there are any, whatever the text is now
\* and whether it was picked or emptied since.
SearchAnswered(s) ==
    /\ s \in searches
    /\ searches' = searches \ {s}
    /\ suggested' = s.text
    /\ listbox' = (Matches[s.text] # {})
    /\ late' = (late \ {"suggest", "left"})
                  \cup (IF s.nr < asked THEN {"suggest"} ELSE {})
                  \cup (IF s.nr <= left THEN {"left"} ELSE {})
    /\ UNCHANGED <<filters, list, skip, wait, asked, left, detail, acts>>

SearchFails(s) ==
    /\ s \in searches
    /\ searches' = searches \ {s}
    /\ suggested' = None /\ listbox' = FALSE
    /\ UNCHANGED <<filters, list, skip, wait, asked, left, detail, late, acts>>

-----------------------------------------------------------------------------
(* The user *)

\* setFullName and the effects of its render: both timers start anew.
Become(t, skips) ==
    /\ typed' = t
    /\ timer' = (timer \/ t # typed)
    /\ SuggestEffect(t, skips)
    /\ left' = IF t # typed /\ ~wait' THEN asked ELSE left

Type(t) ==
    /\ Act
    /\ t # typed
    /\ Become(t, skip)
    /\ listbox' = (listbox /\ suggested' # None)
    /\ UNCHANGED <<applied, sort, page, list, searches, asked, detail, late>>

\* pick: the text of the suggestion, without a search for it.  If it is the
\* text already there the effect does not run and the next key is skipped.
Pick(c) ==
    /\ Act
    /\ listbox /\ suggested # None /\ c \in Matches[suggested]
    /\ Become(Names[c], TRUE)
    /\ listbox' = FALSE
    /\ UNCHANGED <<applied, sort, page, list, searches, asked, detail, late>>

\* Escape or a click elsewhere; the focus opens them again.
Listbox ==
    /\ Act
    /\ listbox' = (~listbox /\ suggested # None /\ Matches[suggested] # {})
    /\ listbox' # listbox
    /\ UNCHANGED <<filters, list, suggested, skip, wait, searches, asked, left, detail, late>>

\* FILTER_DEBOUNCE_MS without a key; it always goes back to the first page.
FilterTimer ==
    /\ timer
    /\ timer' = FALSE
    /\ applied' = typed /\ page' = 1
    /\ UNCHANGED <<typed, sort>>
    /\ LoadIfNew
    /\ UNCHANGED <<suggest, detail, late, acts>>

\* The order, the least visits and the size of the page are applied at once.
Sort(s) ==
    /\ Act
    /\ sort' = s /\ page' = 1
    /\ UNCHANGED <<typed, applied, timer>>
    /\ LoadIfNew
    /\ UNCHANGED <<suggest, detail, late>>

GoTo(p) ==
    /\ Act
    /\ ~loading /\ p # page
    /\ page' = p
    /\ UNCHANGED <<typed, applied, sort, timer>>
    /\ LoadIfNew
    /\ UNCHANGED <<suggest, detail, late>>

\* Broken: the text of one filter is not cleared.
ClearApplied ==
    /\ Act
    /\ \E s \in Sorts : sort' = s
    /\ applied' = Blank /\ page' = 1
    /\ UNCHANGED <<typed, timer>>
    /\ LoadIfNew
    /\ UNCHANGED <<suggest, detail, late>>

\* clearFilters.
Clear ==
    /\ Act
    /\ \E s \in Sorts : sort' = s
    /\ applied' = Blank /\ page' = 1
    /\ Become(Blank, skip)
    /\ listbox' = (listbox /\ suggested' # None)
    /\ LoadIfNew
    /\ UNCHANGED <<searches, asked, detail, late>>

-----------------------------------------------------------------------------
(* The history of a customer *)

\* A row of the list; the modal covers the page.
Select(c) ==
    /\ Act
    /\ ~loading /\ shown # None /\ selected = None
    /\ selected' = c /\ fetching' = TRUE
    /\ Cardinality(histories) < Cardinality(Requests)
    /\ histories' = histories \cup {c}
    /\ UNCHANGED <<filters, list, suggest, history, late>>

Close ==
    /\ selected # None
    /\ selected' = None
    /\ UNCHANGED <<filters, list, suggest, history, fetching, histories, late, acts>>

\* Whichever customer is selected by now.
HistoryAnswered(c) ==
    /\ c \in histories
    /\ histories' = histories \ {c}
    /\ history' = c /\ fetching' = FALSE
    /\ Late("history", selected # None /\ c # selected)
    /\ UNCHANGED <<filters, list, suggest, selected, acts>>

HistoryFails(c) ==
    /\ c \in histories
    /\ histories' = histories \ {c}
    /\ history' = None /\ fetching' = FALSE
    /\ UNCHANGED <<filters, list, suggest, selected, late, acts>>

-----------------------------------------------------------------------------
(* The specification *)

\* The business is known; the effect of the mount has started the timer.
Init ==
    /\ typed = Blank /\ applied = Blank /\ page = 1 /\ timer = TRUE
    /\ sort \in Sorts
    /\ shown = None /\ loading = TRUE
    /\ \E f \in Requests :
          loads = [g \in Requests |-> IF g = f
                     THEN [NoLoad EXCEPT !.pc = "sent", !.q = <<Blank, sort, 1>>] ELSE NoLoad]
    /\ suggested = None /\ listbox = FALSE /\ skip = FALSE /\ wait = FALSE /\ searches = {}
    /\ asked = 0 /\ left = 0
    /\ selected = None /\ history = None /\ fetching = FALSE /\ histories = {}
    /\ late = {} /\ acts = 0

Next ==
    \/ \E f \in Requests : ListAnswered(f) \/ ListFails(f)
    \/ SearchTimer \/ FilterTimer
    \/ \E s \in searches : SearchAnswered(s) \/ SearchFails(s)
    \/ \E c \in Clients : HistoryAnswered(c) \/ HistoryFails(c)
    \/ \E t \in Texts : selected = None /\ Type(t)
    \/ \E c \in Clients : selected = None /\ Pick(c)
    \/ selected = None /\ (Listbox \/ Clear)
    \/ \E s \in Sorts : selected = None /\ Sort(s)
    \/ \E p \in 1..2 : selected = None /\ GoTo(p)
    \/ \E c \in Clients : Select(c)
    \/ Close

Spec == Init /\ [][Next]_vars

-----------------------------------------------------------------------------
(* Properties *)

\* Type correctness.
TypeOK ==
    /\ typed \in Texts /\ applied \in Texts /\ sort \in Sorts /\ page \in {1, 2}
    /\ suggested \in Texts \cup {None} /\ listbox => suggested # None
    /\ searches \subseteq [text : Texts, nr : 1..asked] /\ histories \subseteq Clients
    /\ selected \in Clients \cup {None} /\ history \in Clients \cup {None}
    /\ fetching => histories # {}
    /\ late \subseteq {"list", "suggest", "left", "history"}
    /\ asked \in Nat /\ left \in 0..asked

\* What is shown is what was asked for, once nothing is on its way: what is typed is
\* applied when the timer has run, whatever was cleared, picked or sorted meanwhile;
\* the list is of the filters, the suggestions are of the text, and the history is
\* of the customer (clientes-page.tsx:57-125, client-suggest-input.tsx:50-101,
\* client-detail-modal.tsx:37-62).  There are two exceptions.  An answer may come after
\* that of a later request, or not come.  And suggestions that were on their way when
\* their text was picked or emptied, which asks for none, open again
\* (client-suggest-input.tsx:78-81, 93-101): "left".
ShowsWhatWasAsked ==
    /\ ~timer => applied = typed
    /\ (\A f \in Requests : loads[f].pc = "idle") /\ "list" \notin late => shown = query
    /\ listbox /\ ~wait /\ searches = {} /\ late \cap {"suggest", "left"} = {} =>
          suggested = typed
    /\ selected # None /\ histories = {} /\ "history" \notin late => history \in {selected, None}

=============================================================================
