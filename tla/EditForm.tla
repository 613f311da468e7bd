------------------------------- MODULE EditForm -------------------------------
(***************************************************************************)
(* The forms of the web client over what the API keeps: the cards of the   *)
(* settings page (schedule, retention, notifications, exclude patterns)    *)
(* and the edit pages of a source and of a destination.                    *)
(*                                                                         *)
(* All work the same way.  A query fetches the values; an effect on its    *)
(* data copies them to the form; the user edits the form and saves the     *)
(* whole of it.  A card shows its defaults before the first answer, a page *)
(* waits for it.  The notifications may be missing from the configuration: *)
(* their card is then left as it was.                                      *)
(*                                                                         *)
(* A value is what is sent for what the field shows: an empty port is the  *)
(* default one.                                                            *)
(***************************************************************************)
EXTENDS Naturals

CONSTANTS
    Fields, Values,
    Fixed,      \* the fields the API does not keep: `enabled` of the schedule
                \* and of the notifications
    Optional,   \* the fields a page leaves out when they are empty: `include`
    Empty,
    Default,    \* Default[f]: what a card shows before the first answer
    FirstSaved, \* the values the API has at the start
    MaxNews,    \* bound: what changes in an answer beside the values
    None

FormAssumption ==
    /\ Fixed \subseteq Fields /\ Optional \subseteq Fields /\ MaxNews \in Nat
    /\ Default \in [Fields -> Values] /\ FirstSaved \in [Fields -> Values]
    /\ None \notin [Fields -> Values]

VARIABLES
    kind,      \* "card", "page", or "notifications", which is a card too
    saved,     \* the values the API has; None: the configuration has no `discord`
    news,      \* lastRun and nextRun of the schedule, createdAt of the others
    answer,    \* the answer under way, or None
    cached,    \* data of the query
    form,      \* the fields of the form, or None before a page is ready
    sending,   \* the values of the save under way, or None
    edited,    \* history: the fields the user has edited since the form was filled
    meant,     \* history: those of the save under way
    fetched    \* history: the data of the query when the save was sent

server == <<saved, news>>
client == <<answer, cached, form, sending, edited, meant, fetched>>
vars   == <<kind, server, client>>

Kinds   == {"card", "page", "notifications"}
Answers == [values : [Fields -> Values] \union {None}, news : 0..MaxNews]

Init ==
    /\ kind \in Kinds
    /\ saved \in {FirstSaved} \union (IF kind = "notifications" THEN {None} ELSE {})
    /\ news = 0 /\ answer = None /\ cached = None
    /\ form = IF kind = "page" THEN None ELSE Default
    /\ sending = None /\ edited = {} /\ meant = {} /\ fetched = None
-----------------------------------------------------------------------------
\* What the API has for a field that a request does not set.
Kept == IF saved = None THEN FirstSaved ELSE saved

\* A request of another client, PUT of the same values.
EditElsewhere(f, v) ==
    /\ f \notin Fixed
    /\ saved' = [Kept EXCEPT ![f] = v]
    /\ UNCHANGED <<kind, news, client>>

\* `discord` is taken out of chest-backup.json by hand.
DropNotifications ==
    /\ kind = "notifications"
    /\ saved' = None
    /\ UNCHANGED <<kind, news, client>>

\* A run ends, or, on a page, the time goes on.  The notifications have no news.
NewsComes ==
    /\ news < MaxNews /\ kind # "notifications"
    /\ news' = news + 1
    /\ UNCHANGED <<kind, saved, client>>

\* The query is fetched on mount and when it is invalidated: by a save, by the
\* end of a run (invalidateRunQueries), by a mutation on another page.  A fetch
\* under way is given up for the new one.
Fetch ==
    /\ answer' = [values |-> saved, news |-> news]
    /\ UNCHANGED <<kind, server, cached, form, sending, edited, meant, fetched>>

\* Mutation: only the first answer fills the form.
AnswerArrivesOnce ==
    /\ answer # None
    /\ answer' = None /\ cached' = answer
    /\ IF cached # None \/ answer.values = None
       THEN UNCHANGED <<form, edited>>
       ELSE form' = answer.values /\ edited' = {}
    /\ UNCHANGED <<kind, server, sending, meant, fetched>>

\* Data that are equal to those before are the same data to the effect
\* (structural sharing of the query client): the form stays as it is.  So it
\* does at an answer without `discord`, which only the query keeps.
AnswerArrives ==
    /\ answer # None
    /\ answer' = None /\ cached' = answer
    /\ IF answer = cached \/ answer.values = None
       THEN UNCHANGED <<form, edited>>
       ELSE form' = answer.values /\ edited' = {}
    /\ UNCHANGED <<kind, server, sending, meant, fetched>>
FetchFails ==
    /\ answer # None
    /\ answer' = None
    /\ UNCHANGED <<kind, server, cached, form, sending, edited, meant, fetched>>

\* onChange of a field, handleAdd and handleRemove of a pattern.
EditField(f, v) ==
    /\ form # None /\ v # form[f]
    /\ form' = [form EXCEPT ![f] = v]
    /\ edited' = edited \union {f}
    /\ UNCHANGED <<kind, server, answer, cached, sending, meant, fetched>>

\* handleSave: every field of the form, those the user has not touched too.
Save ==
    /\ form # None /\ sending = None
    /\ sending' = form /\ meant' = edited /\ fetched' = cached
    /\ UNCHANGED <<kind, server, answer, cached, form, edited>>

\* What a page leaves out of the body, and so buildNextItem takes from the item
\* as it is: the patterns cannot be emptied by the page.
LeftOut(f) == kind = "page" /\ f \in Optional /\ sending[f] = Empty

\* The PUT arrives; the fields that are not kept or not sent stay.  Its answer
\* may be lost; onSuccess invalidates the query.
SaveArrives ==
    /\ sending # None
    /\ saved' = [f \in Fields |-> IF f \in Fixed \/ LeftOut(f) THEN Kept[f] ELSE sending[f]]
    /\ answer' \in {answer, [values |-> saved', news |-> news]}
    /\ sending' = None /\ meant' = {} /\ fetched' = None
    /\ UNCHANGED <<kind, news, cached, form, edited>>
SaveFails ==
    /\ sending # None
    /\ sending' = None /\ meant' = {} /\ fetched' = None
    /\ UNCHANGED <<kind, server, answer, cached, form, edited>>
-----------------------------------------------------------------------------
Next ==
    \/ \E f \in Fields, v \in Values : EditElsewhere(f, v) \/ EditField(f, v)
    \/ DropNotifications \/ NewsComes \/ Fetch \/ AnswerArrives \/ FetchFails
    \/ Save \/ SaveArrives \/ SaveFails

Spec == Init /\ [][Next]_vars
-----------------------------------------------------------------------------
TypeOK ==
    /\ kind \in Kinds
    /\ saved \in [Fields -> Values] \union {None} /\ news \in 0..MaxNews
    /\ answer \in Answers \union {None} /\ cached \in Answers \union {None}
    /\ fetched \in Answers \union {None}
    /\ form \in [Fields -> Values] \union {None} /\ sending \in [Fields -> Values] \union {None}
    /\ edited \subseteq Fields /\ meant \subseteq Fields

\* A save takes back nothing that this client has seen: where it changes a field
\* the user did not edit, the API's value was a change of another client that
\* was not fetched, or the form was a card that no answer had filled and its
\* defaults are saved (the effects on the data, handleSave).  Excepted by name:
\* the card of the notifications after an answer without `discord`, which leaves
\* it as it was, so that a save brings back a webhook whose removal was fetched.
\* Nothing is said of an edit that a save leaves out (an emptied `include`).
SavesWhatItShows ==
    [][sending # None /\ saved' # saved /\ sending' = None =>
         \A f \in Fields \ Fixed : saved = None \/ saved'[f] # saved[f] =>
           \/ f \in meant
           \/ /\ fetched = None
              /\ kind # "page" /\ saved'[f] = Default[f]
           \/ /\ fetched # None
              /\ fetched.values = None \/ saved'[f] = fetched.values[f]]_vars
=============================================================================
