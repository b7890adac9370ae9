----------------------------- MODULE CreateLink ----------------------------
(***************************************************************************)
(* The "Create NikkaLink" modal of the dashboard (CreateURLModal.tsx): the *)
(* form with its debounced preview and alias suggestions, the duplicate    *)
(* check before a link is created, the dialog that follows it, and the     *)
(* view of the link just created, which waits for its metadata on an event *)
(* stream (useLinkEvents).  The modal stays mounted while it is closed, so *)
(* every answer finds it in whatever state it is in by then.               *)
(*                                                                         *)
(* A link is named by the submission that creates it.  The effects that    *)
(* follow a state change belong to the step that makes the change.  Of the *)
(* server there is what the modal meets: the links it made until they are  *)
(* deleted, those made elsewhere as a duplicate that any check may find,   *)
(* and the events.                                                         *)
(***************************************************************************)
EXTENDS Naturals

CONSTANTS
  Urls,    \* what a user types or copies
  Codes,   \* bound: the submissions, named by the short codes they make
  None

ASSUME ConstantsAssumption == None \notin Urls \cup Codes

Steps == {"unsent", "checking", "sent", "committed", "done"}

VARIABLES
  open,         \* the modal
  form,         \* url: the field; debounced: 600 ms later
  initialUrl,   \* clipboardUrl of DashboardShell
  preview,      \* the query cache, per URL
  alias,        \* suggestions are shown; the last request for some is pending
  created,      \* the link shown in place of the form
  liveMetadata, \* the link whose metadata is shown
  metadataLoading,
  stream,       \* the event stream for the link shown
  leftover,     \* a cancelled stream that still waits for a message
  dialog,       \* DuplicateDialog: on top of the modal, or opened before it
  post,         \* how far each submission is
  original,     \* what it shortens
  last,         \* the submission the useCreateURL hook reports on
  published,    \* links whose MetadataFetched event is out
  deleted,      \* links with deleted_at
  late,         \* history: an answer came while the modal was closed
  replaced,     \* history: a link was shown in place of another
  waived        \* history: URLs created without a duplicate check

shown == <<created, liveMetadata, metadataLoading, stream, leftover>>
server == <<post, original, last, published, deleted>>
history == <<late, replaced, waived>>
vars == <<open, form, initialUrl, preview, alias, shown, dialog, server, history>>

TypeOK ==
  /\ open \in BOOLEAN
  /\ form \in [url : Urls \cup {None}, debounced : Urls \cup {None}]
  /\ initialUrl \in Urls \cup {None}
  /\ preview \in [Urls -> {"unknown", "asked", "titled"}]
  /\ alias \in [shown : BOOLEAN, pending : BOOLEAN]
  /\ created \in Codes \cup {None}
  /\ liveMetadata \in Codes \cup {None}
  /\ metadataLoading \in BOOLEAN
  /\ stream \in {"off", "connecting", "failed", "open", "over"}
  /\ leftover \in BOOLEAN
  /\ dialog \in {"none", "over", "under"}
  /\ post \in [Codes -> Steps]
  /\ original \in [Codes -> Urls \cup {None}]
  /\ last \in Codes \cup {None}
  /\ published \subseteq Codes /\ deleted \subseteq Codes
  /\ late \in BOOLEAN /\ replaced \in BOOLEAN
  /\ waived \subseteq Urls

Init ==
  /\ open = FALSE
  /\ form = [url |-> None, debounced |-> None]
  /\ initialUrl = None
  /\ preview = [u \in Urls |-> "unknown"]
  /\ alias = [shown |-> FALSE, pending |-> FALSE]
  /\ created = None /\ liveMetadata = None /\ metadataLoading = FALSE
  /\ stream = "off" /\ leftover = FALSE
  /\ dialog = "none"
  /\ post = [c \in Codes |-> "unsent"]
  /\ original = [c \in Codes |-> None]
  /\ last = None
  /\ published = {} /\ deleted = {}
  /\ late = FALSE /\ replaced = FALSE /\ waived = {}

\* ------------------------------------------------------------- what is shown
FormShown == open /\ created = None /\ dialog # "over"
SuccessShown == open /\ created # None
DialogShown == dialog = "over" /\ created = None

\* mutant: only the duplicate check disables the button.
PendingCheck == \E c \in Codes : post[c] = "checking"

\* Both buttons and Enter are off while one of the two mutations is pending.
Pending == \/ \E c \in Codes : post[c] = "checking"
           \/ last # None /\ post[last] \in {"sent", "committed"}

Live(c) == post[c] \in {"committed", "done"} /\ c \notin deleted

\* find_duplicate: URLs for which the user has a link of this modal
Owned == {original[c] : c \in {d \in Codes : Live(d)}}

\* ------------------------------------------------------------------- effects
\* useMetadataPreview: the query runs when it is enabled for a URL it does not know.
AskPreview(enabled, u) ==
  preview' = IF enabled /\ u \in Urls /\ preview[u] = "unknown"
             THEN [preview EXCEPT ![u] = "asked"] ELSE preview

\* The preview of u has arrived and has a title.
HasTitle(u) == u \in Urls /\ preview[u] = "titled"

\* The effect on preview title, URL and created asks for suggestions: only the callback
\* of the last request will run.
AskAliases(fires) == alias' = [alias EXCEPT !.pending = @ \/ fires]

\* useLinkEvents: the stream follows the link shown; a cancelled one waits for one more
\* message.
Follow(isOpen, code) ==
  IF isOpen /\ code # None
  THEN IF open /\ created = code THEN UNCHANGED <<stream, leftover>>
       ELSE /\ stream' = "connecting"
            /\ leftover' = (leftover \/ stream = "open")
  ELSE /\ stream' = "off"
       /\ leftover' = (leftover \/ stream = "open")

\* ------------------------------------------------------- opening and closing
Open(u) ==
  /\ ~ open
  /\ open' = TRUE
  /\ initialUrl' = u
  /\ form' = [form EXCEPT !.url = IF u # None THEN u ELSE @]
  /\ dialog' = IF dialog = "over" THEN "under" ELSE dialog
  /\ AskPreview(created = None, form.debounced)
  /\ Follow(TRUE, created)
  /\ UNCHANGED <<alias, created, liveMetadata, metadataLoading, server, history>>

\* Ctrl-K, or the button of the page: the URL of an earlier paste comes back.
OpenPalette == Open(initialUrl)

\* SmartClipboardBanner lies under the overlay of a dialog.
OpenBanner(u) == dialog = "none" /\ Open(u)

\* mutants: one of the three resets of the effect is missing.
ForgetLinkNotSpinner == created' = None /\ liveMetadata' = None /\ UNCHANGED metadataLoading
ForgetLinkNotMetadata == created' = None /\ metadataLoading' = FALSE /\ UNCHANGED liveMetadata

ForgetLink == created' = None /\ liveMetadata' = None /\ metadataLoading' = FALSE

\* The effect on "open" resets the modal, the duplicate excepted.  With the link gone,
\* the suggestions for the URL that is still debounced are asked for once more.
Close ==
  /\ open' = FALSE
  /\ form' = [form EXCEPT !.url = None]
  /\ ForgetLink
  /\ Follow(FALSE, None)
  /\ alias' = [shown |-> FALSE,
               pending |-> alias.pending \/ (created # None /\ HasTitle(form.debounced))]
  /\ late' = FALSE /\ replaced' = FALSE
  /\ UNCHANGED <<initialUrl, preview, server, waived>>

Cancel ==
  /\ FormShown \/ SuccessShown
  /\ Close
  /\ dialog' = IF dialog = "under" THEN "over" ELSE dialog

\* ------------------------------------------------------------------ the form
Type(u) ==
  /\ FormShown
  /\ u # form.url
  /\ form' = [form EXCEPT !.url = u]
  /\ UNCHANGED <<open, initialUrl, preview, alias, shown, dialog, server, history>>

Debounce ==
  /\ form.debounced # form.url
  /\ form' = [form EXCEPT !.debounced = form.url]
  /\ AskPreview(open /\ created = None, form.url)
  /\ AskAliases(created = None /\ HasTitle(form.url))
  /\ UNCHANGED <<open, initialUrl, shown, dialog, server, history>>

\* A preview that fails is not retried; one without a title shows as little.
PreviewAnswered(u, ok) ==
  /\ preview[u] = "asked"
  /\ preview' = [preview EXCEPT ![u] = IF ok THEN "titled" ELSE "unknown"]
  /\ AskAliases(ok /\ u = form.debounced /\ created = None)
  /\ UNCHANGED <<open, form, initialUrl, shown, dialog, server, history>>

AliasesAnswered(ok) ==
  /\ alias.pending
  /\ alias' = [alias EXCEPT !.shown = @ \/ ok, !.pending = FALSE]
  /\ late' = (late \/ (ok /\ ~ open))
  /\ UNCHANGED <<open, form, initialUrl, preview, shown, dialog, server, replaced, waived>>

\* ------------------------------------------------------------------ creating
\* onSubmit: the duplicates are checked first, with the form still editable and the
\* modal free to close.
Submit(c) ==
  /\ FormShown /\ form.url # None /\ ~ Pending
  /\ post[c] = "unsent"
  /\ post' = [post EXCEPT ![c] = "checking"]
  /\ original' = [original EXCEPT ![c] = form.url]
  /\ UNCHANGED <<open, form, initialUrl, preview, alias, shown, dialog, last, published,
                 deleted, history>>

\* A URL without a link, or one whose check failed, goes on to doCreate.
CheckAnswered(c, ok) ==
  /\ post[c] = "checking"
  /\ ~ ok \/ original[c] \notin Owned
  /\ post' = [post EXCEPT ![c] = "sent"]
  /\ last' = c
  /\ waived' = IF ok THEN waived ELSE waived \cup {original[c]}
  /\ UNCHANGED <<open, form, initialUrl, preview, alias, shown, dialog, original, published,
                 deleted, late, replaced>>

\* A submission that makes no link: its name is free again.
Withdrawn(c) ==
  /\ post' = [post EXCEPT ![c] = "unsent"]
  /\ original' = [original EXCEPT ![c] = None]

\* A duplicate, which may have been made elsewhere, opens the dialog; one that is open
\* already stays where it is.
CheckFinds(c) ==
  /\ post[c] = "checking"
  /\ Withdrawn(c)
  /\ dialog' = IF dialog = "none" THEN "over" ELSE dialog
  /\ UNCHANGED <<open, form, initialUrl, preview, alias, shown, last, published, deleted, history>>

Commits(c) ==
  /\ post[c] = "sent"
  /\ post' = [post EXCEPT ![c] = "committed"]
  /\ UNCHANGED <<open, form, initialUrl, preview, alias, shown, dialog, original, last,
                 published, deleted, history>>

\* The owner deletes it from a list, here or in another window; its events still come.
Delete(c) ==
  /\ Live(c)
  /\ deleted' = deleted \cup {c}
  /\ UNCHANGED <<open, form, initialUrl, preview, alias, shown, dialog, post, original, last,
                 published, history>>

\* doCreate after the await: the link is shown, whether the modal is open or not.
CreateAnswered(c) ==
  /\ post[c] = "committed"
  /\ post' = [post EXCEPT ![c] = "done"]
  /\ created' = c
  /\ metadataLoading' = TRUE
  /\ Follow(open, c)
  /\ late' = (late \/ ~ open)
  /\ replaced' = (replaced \/ created # None)
  /\ UNCHANGED <<open, form, initialUrl, preview, alias, liveMetadata, dialog, original, last,
                 published, deleted, waived>>

\* The request or its answer is lost, or there is no token.
CreateFails(c) ==
  /\ post[c] \in {"sent", "committed"}
  /\ IF post[c] = "sent" THEN Withdrawn(c)
     ELSE post' = [post EXCEPT ![c] = "done"] /\ UNCHANGED original
  /\ UNCHANGED <<open, form, initialUrl, preview, alias, shown, dialog, last, published,
                 deleted, history>>

\* ----------------------------------------------------------- DuplicateDialog
\* mutant: an empty form is posted.
CreateAnotherEmpty(c) ==
  /\ DialogShown
  /\ dialog' = "none"
  /\ post[c] = "unsent"
  /\ post' = [post EXCEPT ![c] = "sent"]
  /\ original' = [original EXCEPT ![c] = form.url]
  /\ last' = c
  /\ waived' = waived \cup {form.url}
  /\ UNCHANGED <<open, form, initialUrl, preview, alias, shown, published, deleted, late,
                 replaced>>

\* "Create Another" takes what the form holds by now, unchecked; an empty one throws.
CreateAnother(c) ==
  /\ DialogShown
  /\ dialog' = "none"
  /\ IF form.url = None THEN UNCHANGED <<post, original, last, waived>>
     ELSE /\ post[c] = "unsent"
          /\ post' = [post EXCEPT ![c] = "sent"]
          /\ original' = [original EXCEPT ![c] = form.url]
          /\ last' = c
          /\ waived' = waived \cup {form.url}
  /\ UNCHANGED <<open, form, initialUrl, preview, alias, shown, published, deleted, late,
                 replaced>>

Reuse ==
  /\ DialogShown
  /\ dialog' = "none"
  /\ Close

DismissDialog ==
  /\ DialogShown
  /\ dialog' = "none"
  /\ UNCHANGED <<open, form, initialUrl, preview, alias, shown, server, history>>

\* -------------------------------------------------------------- event stream
\* No token, no connection or an error status: nothing is tried again.
Connect(ok) ==
  /\ stream = "connecting"
  /\ stream' = IF ok THEN "open" ELSE "failed"
  /\ UNCHANGED <<open, form, initialUrl, preview, alias, created, liveMetadata,
                 metadataLoading, leftover, dialog, server, history>>

Disconnect ==
  /\ stream = "open"
  /\ stream' = "over"
  /\ UNCHANGED <<open, form, initialUrl, preview, alias, created, liveMetadata,
                 metadataLoading, leftover, dialog, server, history>>

\* The keep-alive of the server ends a cancelled stream.
Ping ==
  /\ leftover
  /\ leftover' = FALSE
  /\ UNCHANGED <<open, form, initialUrl, preview, alias, created, liveMetadata,
                 metadataLoading, stream, dialog, server, history>>

\* mutant: events of other links count.
HeardAny(c) == (stream = "open" \/ leftover) /\ created # None

\* handleSSEEvent: the event counts if it is for the link shown.
Heard(c) == (stream = "open" \/ leftover) /\ created = c

\* The metadata of a link is published once; the streams that are open carry the event,
\* nobody else will hear of it.
Publish(c) ==
  /\ post[c] \in {"committed", "done"} /\ c \notin published
  /\ published' = published \cup {c}
  /\ IF Heard(c)
     THEN liveMetadata' = c /\ metadataLoading' = FALSE
     ELSE UNCHANGED <<liveMetadata, metadataLoading>>
  /\ leftover' = FALSE
  /\ UNCHANGED <<open, form, initialUrl, preview, alias, created, stream, dialog, post,
                 original, last, deleted, history>>

\* ------------------------------------------------------------- specification
Next ==
  \/ OpenPalette
  \/ \E u \in Urls : OpenBanner(u)
  \/ Cancel
  \/ \E u \in Urls \cup {None} : Type(u)
  \/ Debounce
  \/ \E u \in Urls, ok \in BOOLEAN : PreviewAnswered(u, ok)
  \/ \E ok \in BOOLEAN : AliasesAnswered(ok)
  \/ \E c \in Codes : Submit(c) \/ CheckFinds(c) \/ Commits(c) \/ Delete(c)
                      \/ CreateAnswered(c) \/ CreateFails(c) \/ CreateAnother(c) \/ Publish(c)
  \/ \E c \in Codes, ok \in BOOLEAN : CheckAnswered(c, ok)
  \/ Reuse \/ DismissDialog
  \/ \E ok \in BOOLEAN : Connect(ok)
  \/ Disconnect \/ Ping

Spec == Init /\ [][Next]_vars

\* A connection is opened or refused.
FairSpec == Spec /\ WF_vars(\E ok \in BOOLEAN : Connect(ok))

\* ----------------------------------------------------------------- properties
\* "Fetching metadata" is shown for a link, and not for one whose metadata is there
\* (setMetadataLoading in CreateURLModal.tsx:96, :115 and :137).
SpinnerIsReal == metadataLoading => created # None /\ liveMetadata # created

\* The metadata under a link is its own, whatever streams carry events of other links,
\* unless a second submission took the place of the first (CreateURLModal.tsx:86).
MetadataIsOfLink == ~ replaced => liveMetadata \in {None, created}

\* A closed modal keeps nothing of the link made before, unless an answer came after it
\* was closed (the effect of CreateURLModal.tsx:111).
ClosedIsClean ==
  ~ open /\ ~ late =>
    /\ created = None /\ liveMetadata = None /\ ~ metadataLoading
    /\ form.url = None /\ ~ alias.shown

\* The modal makes a second link for a URL that has a live one only where the user asked
\* for another or the check failed (CreateURLModal.tsx:142, the disabled button of :297).
DuplicatesAreKnown ==
  \A c, d \in Codes :
    /\ c # d /\ original[c] = original[d]
    /\ Live(c) /\ Live(d)
    => original[c] \in waived

\* "Automatically reconnects on disconnect." (useLinkEvents.ts:23)
StreamReconnects == (stream = "over") ~> (stream # "over")
=============================================================================
