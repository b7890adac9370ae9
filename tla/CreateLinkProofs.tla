-------------------------- MODULE CreateLinkProofs --------------------------
(***************************************************************************)
(* What the modal shows, and the links it makes, for any number of URLs    *)
(* and submissions.  That no URL gets a second link unasked rests on       *)
(* there being one submission at most under way, although the button of    *)
(* DuplicateDialog is never disabled: where that dialog is in reach, the   *)
(* form is empty or nothing is pending.                                    *)
(***************************************************************************)
EXTENDS CreateLink, TLAPS

USE ConstantsAssumption

\* -------------------------------------------------------------------- types
\* A submission knows its URL.
Named == \A c \in Codes : post[c] # "unsent" => original[c] \in Urls

TypeInv == TypeOK /\ Named

LEMMA TypeInit == Init => TypeInv
<1> SUFFICES ASSUME Init PROVE TypeInv
  OBVIOUS
<1>1. /\ open \in BOOLEAN /\ late \in BOOLEAN /\ replaced \in BOOLEAN
      /\ metadataLoading \in BOOLEAN /\ leftover \in BOOLEAN
  BY DEF Init
<1>2. alias \in [shown : BOOLEAN, pending : BOOLEAN]
  BY DEF Init
<1>3. Named
  BY DEF Init, Named
<1> QED
  BY <1>1, <1>2, <1>3 DEF Init, TypeInv, TypeOK, Steps

LEMMA FollowType ==
  ASSUME stream \in {"off", "connecting", "failed", "open", "over"}, leftover \in BOOLEAN,
         NEW isOpen, NEW code, Follow(isOpen, code)
  PROVE  stream' \in {"off", "connecting", "failed", "open", "over"} /\ leftover' \in BOOLEAN
BY DEF Follow

LEMMA AskPreviewType ==
  ASSUME preview \in [Urls -> {"unknown", "asked", "titled"}], NEW enabled, NEW u,
         AskPreview(enabled, u)
  PROVE  preview' \in [Urls -> {"unknown", "asked", "titled"}]
BY DEF AskPreview

LEMMA AskAliasesType ==
  ASSUME alias \in [shown : BOOLEAN, pending : BOOLEAN], NEW fires \in BOOLEAN,
         AskAliases(fires)
  PROVE  alias' \in [shown : BOOLEAN, pending : BOOLEAN]
BY DEF AskAliases

LEMMA OpenType ==
  ASSUME TypeInv, NEW u \in Urls \cup {None}, Open(u)
  PROVE  TypeInv'
<1>1. preview' \in [Urls -> {"unknown", "asked", "titled"}]
  BY AskPreviewType DEF TypeInv, TypeOK, Open
<1>2. stream' \in {"off", "connecting", "failed", "open", "over"} /\ leftover' \in BOOLEAN
  BY FollowType DEF TypeInv, TypeOK, Open
<1> QED
  BY <1>1, <1>2 DEF Open, TypeInv, TypeOK, Named, server, history

LEMMA CloseType ==
  ASSUME TypeInv, Close, dialog' \in {"none", "over", "under"}
  PROVE  TypeInv'
<1>1. stream' \in {"off", "connecting", "failed", "open", "over"} /\ leftover' \in BOOLEAN
  BY FollowType DEF TypeInv, TypeOK, Close
<1>2. alias' \in [shown : BOOLEAN, pending : BOOLEAN]
  BY DEF TypeInv, TypeOK, Close, HasTitle
<1> QED
  BY <1>1, <1>2 DEF Close, ForgetLink, TypeInv, TypeOK, Named, server

LEMMA WithdrawnType ==
  ASSUME TypeInv, NEW c \in Codes, Withdrawn(c)
  PROVE  /\ post' \in [Codes -> Steps] /\ original' \in [Codes -> Urls \cup {None}]
         /\ Named'
BY DEF TypeInv, TypeOK, Named, Withdrawn, Steps

LEMMA TypeStep == TypeInv /\ [Next]_vars => TypeInv'
<1> SUFFICES ASSUME TypeInv, [Next]_vars PROVE TypeInv'
  OBVIOUS
<1> USE DEF shown, server, history
<1>1. CASE OpenPalette
  BY <1>1, OpenType DEF OpenPalette, TypeInv, TypeOK
<1>2. CASE \E u \in Urls : OpenBanner(u)
  BY <1>2, OpenType DEF OpenBanner
<1>3. CASE Cancel
  BY <1>3, CloseType DEF Cancel, TypeInv, TypeOK
<1>4. CASE \E u \in Urls \cup {None} : Type(u)
  BY <1>4 DEF Type, TypeInv, TypeOK, Named
<1>5. CASE Debounce
  <2>1. preview' \in [Urls -> {"unknown", "asked", "titled"}]
    BY <1>5, AskPreviewType DEF TypeInv, TypeOK, Debounce
  <2>2. alias' \in [shown : BOOLEAN, pending : BOOLEAN]
    BY <1>5, AskAliasesType DEF TypeInv, TypeOK, Debounce, HasTitle
  <2> QED
    BY <1>5, <2>1, <2>2 DEF Debounce, TypeInv, TypeOK, Named
<1>6. ASSUME NEW u \in Urls, NEW ok \in BOOLEAN, PreviewAnswered(u, ok)
      PROVE  TypeInv'
  <2>1. alias' \in [shown : BOOLEAN, pending : BOOLEAN]
    BY <1>6, AskAliasesType DEF TypeInv, TypeOK, PreviewAnswered
  <2> QED
    BY <1>6, <2>1 DEF PreviewAnswered, TypeInv, TypeOK, Named
<1>7. ASSUME NEW ok \in BOOLEAN, AliasesAnswered(ok)
      PROVE  TypeInv'
  <2>1. alias' \in [shown : BOOLEAN, pending : BOOLEAN]
    BY <1>7 DEF AliasesAnswered, TypeInv, TypeOK
  <2>2. late' \in BOOLEAN
    BY <1>7 DEF AliasesAnswered, TypeInv, TypeOK
  <2> QED
    BY <1>7, <2>1, <2>2 DEF AliasesAnswered, TypeInv, TypeOK, Named
<1>8. ASSUME NEW c \in Codes, Submit(c)
      PROVE  TypeInv'
  BY <1>8 DEF Submit, FormShown, TypeInv, TypeOK, Named, Steps
<1>9. ASSUME NEW c \in Codes, CheckFinds(c)
      PROVE  TypeInv'
  BY <1>9, WithdrawnType DEF CheckFinds, TypeInv, TypeOK
<1>10. ASSUME NEW c \in Codes, Commits(c) \/ Delete(c)
       PROVE  TypeInv'
  BY <1>10 DEF Commits, Delete, TypeInv, TypeOK, Named, Steps
<1>11. ASSUME NEW c \in Codes, CreateAnswered(c)
       PROVE  TypeInv'
  <2>1. stream' \in {"off", "connecting", "failed", "open", "over"} /\ leftover' \in BOOLEAN
    BY <1>11, FollowType DEF TypeInv, TypeOK, CreateAnswered
  <2> QED
    BY <1>11, <2>1 DEF CreateAnswered, TypeInv, TypeOK, Named, Steps
<1>12. ASSUME NEW c \in Codes, CreateFails(c)
       PROVE  TypeInv'
  <2>1. /\ post' \in [Codes -> Steps] /\ original' \in [Codes -> Urls \cup {None}]
        /\ Named'
    <3>1. CASE post[c] = "sent"
      BY <1>12, <3>1, WithdrawnType DEF CreateFails
    <3>2. CASE post[c] # "sent"
      BY <1>12, <3>2 DEF CreateFails, TypeInv, TypeOK, Named, Steps
    <3> QED
      BY <3>1, <3>2
  <2> QED
    BY <1>12, <2>1 DEF CreateFails, TypeInv, TypeOK
<1>13. ASSUME NEW c \in Codes, CreateAnother(c)
       PROVE  TypeInv'
  BY <1>13 DEF CreateAnother, TypeInv, TypeOK, Named, Steps
<1>14. ASSUME NEW c \in Codes, Publish(c)
       PROVE  TypeInv'
  <2>1. /\ liveMetadata' \in Codes \cup {None} /\ metadataLoading' \in BOOLEAN
        /\ leftover' \in BOOLEAN
    BY <1>14 DEF Publish, TypeInv, TypeOK
  <2>2. published' \subseteq Codes
    BY <1>14 DEF Publish, TypeInv, TypeOK
  <2> QED
    BY <1>14, <2>1, <2>2 DEF Publish, TypeInv, TypeOK, Named
<1>15. ASSUME NEW c \in Codes, NEW ok \in BOOLEAN, CheckAnswered(c, ok)
       PROVE  TypeInv'
  BY <1>15 DEF CheckAnswered, TypeInv, TypeOK, Named, Steps
<1>16. CASE Reuse
  BY <1>16, CloseType DEF Reuse
<1>17. CASE DismissDialog
  BY <1>17 DEF DismissDialog, TypeInv, TypeOK, Named
<1>18. ASSUME NEW ok \in BOOLEAN, Connect(ok)
       PROVE  TypeInv'
  BY <1>18 DEF Connect, TypeInv, TypeOK, Named
<1>19. CASE Disconnect \/ Ping
  BY <1>19 DEF Disconnect, Ping, TypeInv, TypeOK, Named
<1>20. CASE UNCHANGED vars
  BY <1>20 DEF vars, TypeInv, TypeOK, Named
<1> QED
  BY <1>1, <1>2, <1>3, <1>4, <1>5, <1>6, <1>7, <1>8, <1>9, <1>10, <1>11, <1>12, <1>13,
     <1>14, <1>15, <1>16, <1>17, <1>18, <1>19, <1>20 DEF Next

LEMMA TypeAlways == Spec => []TypeInv
BY TypeInit, TypeStep, PTL DEF Spec

\* The modal, the dialog, the submissions and what is shown keep their types
\* (CreateURLModal.tsx:52).
THEOREM TypeCorrect == Spec => []TypeOK
BY TypeAlways, PTL DEF TypeInv

\* --------------------------------------------------------- what is shown
\* A link is shown, or has its metadata shown, after its submission is over: what is
\* answered next is a link nothing is known of.
Finished ==
  \A c \in Codes : c \in {created, liveMetadata} => post[c] = "done"

ShownInv == TypeInv /\ Finished /\ SpinnerIsReal /\ MetadataIsOfLink /\ ClosedIsClean

LEMMA DoneStays ==
  ASSUME TypeInv, [Next]_vars, NEW d \in Codes, post[d] = "done"
  PROVE  post'[d] = "done"
<1> USE DEF shown, server, history
<1>1. CASE UNCHANGED post
  BY <1>1
<1>2. ASSUME NEW c \in Codes, Submit(c) \/ CheckFinds(c) \/ Commits(c) \/ CreateAnswered(c)
      PROVE  post'[d] = "done"
  BY <1>2 DEF Submit, CheckFinds, Withdrawn, Commits, CreateAnswered, TypeInv, TypeOK
<1>3. ASSUME NEW c \in Codes, CreateFails(c) \/ CreateAnother(c)
      PROVE  post'[d] = "done"
  BY <1>3 DEF CreateFails, Withdrawn, CreateAnother, TypeInv, TypeOK
<1>4. ASSUME NEW c \in Codes, NEW ok \in BOOLEAN, CheckAnswered(c, ok)
      PROVE  post'[d] = "done"
  BY <1>4 DEF CheckAnswered, TypeInv, TypeOK
<1>5. \/ UNCHANGED post
      \/ \E c \in Codes : Submit(c) \/ CheckFinds(c) \/ Commits(c) \/ CreateAnswered(c)
                           \/ CreateFails(c) \/ CreateAnother(c)
      \/ \E c \in Codes, ok \in BOOLEAN : CheckAnswered(c, ok)
  BY DEF Next, vars, OpenPalette, OpenBanner, Open, Cancel, Close, Type, Debounce,
         PreviewAnswered, AliasesAnswered, Publish, Delete, Reuse, DismissDialog, Connect, Disconnect,
         Ping
<1> QED
  BY <1>1, <1>2, <1>3, <1>4, <1>5

LEMMA ShownStep == ShownInv /\ [Next]_vars => ShownInv'
<1> SUFFICES ASSUME ShownInv, [Next]_vars PROVE ShownInv'
  OBVIOUS
<1> USE DEF shown, server, history
<1>1. TypeInv /\ TypeInv'
  BY TypeStep DEF ShownInv
<1>2. \A d \in Codes : post[d] = "done" => post'[d] = "done"
  BY <1>1, DoneStays
<1>3. None \notin Codes /\ None \notin Urls
  OBVIOUS
<1>4. CASE UNCHANGED <<created, liveMetadata, metadataLoading, replaced>>
           /\ ClosedIsClean'
  BY <1>1, <1>2, <1>4 DEF ShownInv, Finished, SpinnerIsReal, MetadataIsOfLink
<1>5. CASE Close
  BY <1>1, <1>2, <1>3, <1>5 DEF Close, ForgetLink, ShownInv, Finished, SpinnerIsReal,
                                MetadataIsOfLink, ClosedIsClean
<1>6. ASSUME NEW c \in Codes, CreateAnswered(c)
      PROVE  ShownInv'
  <2>1. /\ created' = c /\ liveMetadata' = liveMetadata /\ metadataLoading' = TRUE
        /\ open' = open
        /\ late' = (late \/ ~ open)
        /\ replaced' = (replaced \/ created # None)
    BY <1>6 DEF CreateAnswered
  <2>2. liveMetadata # c
    BY <1>6 DEF CreateAnswered, ShownInv, Finished
  <2>3. post'[c] = "done"
    BY <1>1, <1>6 DEF CreateAnswered, TypeInv, TypeOK
  <2>4. Finished'
    BY <1>2, <2>1, <2>3 DEF ShownInv, Finished
  <2>5. MetadataIsOfLink'
    BY <2>1 DEF ShownInv, MetadataIsOfLink
  <2>6. SpinnerIsReal'
    BY <1>3, <2>1, <2>2 DEF SpinnerIsReal
  <2>7. ClosedIsClean'
    BY <2>1 DEF ClosedIsClean
  <2> QED
    BY <1>1, <2>4, <2>5, <2>6, <2>7 DEF ShownInv
<1>7. ASSUME NEW c \in Codes, Publish(c)
      PROVE  ShownInv'
  <2>1. CASE Heard(c)
    <3>1. /\ created = c /\ created' = c /\ liveMetadata' = c /\ metadataLoading' = FALSE
          /\ UNCHANGED <<open, form, alias, late, replaced>>
      BY <1>7, <2>1 DEF Publish, Heard
    <3> QED
      BY <1>1, <1>2, <1>3, <3>1 DEF ShownInv, Finished, SpinnerIsReal, MetadataIsOfLink,
                                    ClosedIsClean
  <2>2. CASE ~ Heard(c)
    BY <1>4, <1>7, <2>2 DEF Publish, ShownInv, ClosedIsClean
  <2> QED
    BY <2>1, <2>2
<1>8. ASSUME NEW u \in Urls \cup {None}, Open(u) \/ Type(u)
      PROVE  ShownInv'
  <2>1. open' = TRUE \/ (open /\ open' = open)
    BY <1>8 DEF Open, Type, FormShown
  <2>2. ClosedIsClean'
    BY <2>1 DEF ClosedIsClean
  <2> QED
    BY <1>4, <1>8, <2>2 DEF Open, Type
<1>9. ASSUME NEW ok \in BOOLEAN, AliasesAnswered(ok)
      PROVE  ShownInv'
  <2>1. CASE open
    BY <1>4, <1>9, <2>1 DEF AliasesAnswered, ClosedIsClean
  <2>2. CASE ~ open /\ ok
    BY <1>4, <1>9, <2>2 DEF AliasesAnswered, ClosedIsClean
  <2>3. CASE ~ open /\ ~ ok
    <3>1. UNCHANGED <<open, form, created, liveMetadata, metadataLoading, replaced>>
          /\ (alias'.shown <=> alias.shown) /\ (late' <=> late)
      BY <1>1, <1>9, <2>3 DEF AliasesAnswered, TypeInv, TypeOK
    <3> QED
      BY <1>4, <3>1 DEF ShownInv, ClosedIsClean
  <2> QED
    BY <2>1, <2>2, <2>3
<1>10. CASE Debounce \/ \E u \in Urls, ok \in BOOLEAN : PreviewAnswered(u, ok)
  <2>1. UNCHANGED <<open, form.url, created, liveMetadata, metadataLoading, replaced, late>>
        /\ alias'.shown = alias.shown
    BY <1>1, <1>10 DEF Debounce, PreviewAnswered, AskAliases, TypeInv, TypeOK
  <2> QED
    BY <1>4, <2>1 DEF ShownInv, ClosedIsClean
<1>11. ASSUME NEW c \in Codes, Submit(c) \/ CheckFinds(c) \/ Commits(c) \/ Delete(c)
                               \/ CreateFails(c) \/ CreateAnother(c)
       PROVE  ShownInv'
  BY <1>4, <1>11 DEF Submit, CheckFinds, Commits, Delete, CreateFails, CreateAnother, ShownInv,
                     ClosedIsClean
<1>12. ASSUME NEW c \in Codes, NEW ok \in BOOLEAN, CheckAnswered(c, ok)
       PROVE  ShownInv'
  BY <1>4, <1>12 DEF CheckAnswered, ShownInv, ClosedIsClean
<1>13. ASSUME NEW ok \in BOOLEAN, Connect(ok)
       PROVE  ShownInv'
  BY <1>4, <1>13 DEF Connect, ShownInv, ClosedIsClean
<1>14. CASE DismissDialog \/ Disconnect \/ Ping \/ UNCHANGED vars
  BY <1>4, <1>14 DEF DismissDialog, Disconnect, Ping, vars, ShownInv, ClosedIsClean
<1> QED
  BY <1>5, <1>6, <1>7, <1>8, <1>9, <1>10, <1>11, <1>12, <1>13, <1>14
     DEF Next, OpenPalette, OpenBanner, Cancel, Reuse, TypeInv, TypeOK, ShownInv

LEMMA ShownInit == Init => ShownInv
BY TypeInit DEF Init, ShownInv, Finished, SpinnerIsReal, MetadataIsOfLink, ClosedIsClean

LEMMA ShownAlways == Spec => []ShownInv
BY ShownInit, ShownStep, PTL DEF Spec

\* "Fetching metadata" is there for a link whose metadata is not (CreateURLModal.tsx:96,
\* :115 and :137), however many submissions were answered before.
THEOREM SpinnerAlwaysReal == Spec => []SpinnerIsReal
BY ShownAlways, PTL DEF ShownInv

\* The metadata under a link is its own, whatever other links the streams carry events of
\* (CreateURLModal.tsx:86).
THEOREM MetadataAlwaysOfLink == Spec => []MetadataIsOfLink
BY ShownAlways, PTL DEF ShownInv

\* A closed modal keeps nothing that was there when it was closed (CreateURLModal.tsx:111).
THEOREM ClosedAlwaysClean == Spec => []ClosedIsClean
BY ShownAlways, PTL DEF ShownInv

\* ------------------------------------------------------------- duplicates
UnderWay(c) == post[c] \in {"checking", "sent", "committed"}

\* One submission is under way, and the buttons know of it.
Alone ==
  /\ \A c, d \in Codes : UnderWay(c) /\ UnderWay(d) => c = d
  /\ \A c \in Codes : post[c] \in {"sent", "committed"} => last = c

\* "Create Another" has nothing to send while a submission is under way.
Harmless == dialog = "over" /\ form.url # None => \A c \in Codes : ~ UnderWay(c)

\* What was checked and found to be new is new until it is committed.
New == \A c \in Codes : post[c] = "sent" => original[c] \notin Owned \/ original[c] \in waived

DuplicateInv == TypeInv /\ Alone /\ Harmless /\ New /\ DuplicatesAreKnown

LEMMA NoneUnderWay ==
  ASSUME Alone, ~ Pending, NEW c \in Codes
  PROVE  ~ UnderWay(c)
BY DEF Alone, Pending, UnderWay

LEMMA DuplicateStep == DuplicateInv /\ [Next]_vars => DuplicateInv'
<1> SUFFICES ASSUME DuplicateInv, [Next]_vars PROVE DuplicateInv'
  OBVIOUS
<1> USE DEF shown, server, history
<1>1. TypeInv /\ TypeInv'
  BY TypeStep DEF DuplicateInv
<1>2. CASE UNCHANGED server /\ UNCHANGED waived /\ Harmless'
  BY <1>1, <1>2 DEF DuplicateInv, Alone, New, Owned, Live, DuplicatesAreKnown, UnderWay
<1>3. ASSUME NEW u \in Urls \cup {None}, Open(u) \/ Type(u)
      PROVE  DuplicateInv'
  BY <1>1, <1>2, <1>3 DEF Open, Type, FormShown, Harmless
<1>4. CASE Close
  BY <1>1, <1>2, <1>4 DEF Close, Harmless, TypeInv, TypeOK
<1>5. CASE Debounce \/ \E u \in Urls, ok \in BOOLEAN : PreviewAnswered(u, ok)
  BY <1>1, <1>2, <1>5 DEF Debounce, PreviewAnswered, DuplicateInv, Harmless, UnderWay, TypeInv,
                          TypeOK
<1>6. CASE DismissDialog \/ Disconnect \/ Ping \/ UNCHANGED vars
  BY <1>2, <1>6 DEF DismissDialog, Disconnect, Ping, vars, DuplicateInv, Harmless, UnderWay
<1>7. ASSUME NEW ok \in BOOLEAN, AliasesAnswered(ok) \/ Connect(ok)
      PROVE  DuplicateInv'
  BY <1>2, <1>7 DEF AliasesAnswered, Connect, DuplicateInv, Harmless, UnderWay
<1>8. ASSUME NEW c \in Codes, Submit(c)
      PROVE  DuplicateInv'
  <2>1. /\ dialog # "over" /\ UNCHANGED <<dialog, last, waived, deleted>>
        /\ \A d \in Codes : ~ UnderWay(d)
        /\ post[c] = "unsent"
        /\ post' = [post EXCEPT ![c] = "checking"]
        /\ original' = [original EXCEPT ![c] = form.url]
    BY <1>8, NoneUnderWay DEF Submit, FormShown, DuplicateInv
  <2>2. Alone' /\ Harmless'
    BY <1>1, <2>1 DEF Alone, Harmless, UnderWay, TypeInv, TypeOK
  <2>3. New' /\ DuplicatesAreKnown'
    BY <1>1, <2>1 DEF DuplicateInv, New, DuplicatesAreKnown, Owned, Live, UnderWay, TypeInv,
                      TypeOK
  <2> QED
    BY <1>1, <2>2, <2>3 DEF DuplicateInv
<1>9. ASSUME NEW c \in Codes, NEW ok \in BOOLEAN, CheckAnswered(c, ok)
      PROVE  DuplicateInv'
  <2>1. /\ UnderWay(c) /\ post[c] = "checking" /\ post' = [post EXCEPT ![c] = "sent"]
        /\ original' = original /\ last' = c
        /\ UNCHANGED <<form, dialog, deleted>>
        /\ waived \subseteq waived'
        /\ original[c] \notin Owned \/ original[c] \in waived'
    BY <1>9 DEF CheckAnswered, UnderWay
  <2>2. Owned' = Owned
    BY <1>1, <2>1 DEF Owned, Live, TypeInv, TypeOK
  <2>3. Alone' /\ Harmless'
    BY <1>1, <2>1 DEF DuplicateInv, Alone, Harmless, UnderWay, TypeInv, TypeOK
  <2>4. New' /\ DuplicatesAreKnown'
    BY <1>1, <2>1, <2>2 DEF DuplicateInv, New, DuplicatesAreKnown, Live, TypeInv, TypeOK
  <2> QED
    BY <1>1, <2>3, <2>4 DEF DuplicateInv
<1>10. ASSUME NEW c \in Codes, Withdrawn(c), post[c] \in {"checking", "sent"},
              UNCHANGED <<form, last, waived, deleted>>,
              dialog' \in {dialog, "over"}
       PROVE  DuplicateInv'
  <2>1. \A d \in Codes : ~ (post'[d] \in {"checking", "sent", "committed"})
    BY <1>1, <1>10 DEF Withdrawn, DuplicateInv, Alone, UnderWay, TypeInv, TypeOK
  <2>2. Alone' /\ Harmless' /\ New'
    BY <2>1 DEF Alone, Harmless, New, UnderWay
  <2>3. DuplicatesAreKnown'
    BY <1>1, <1>10 DEF DuplicateInv, DuplicatesAreKnown, Live, Withdrawn, TypeInv, TypeOK
  <2> QED
    BY <1>1, <2>2, <2>3 DEF DuplicateInv
<1>11. ASSUME NEW c \in Codes, CheckFinds(c)
       PROVE  DuplicateInv'
  BY <1>10, <1>11 DEF CheckFinds
<1>12. ASSUME NEW c \in Codes, Commits(c)
       PROVE  DuplicateInv'
  <2>1. /\ UnderWay(c) /\ post[c] = "sent" /\ post' = [post EXCEPT ![c] = "committed"]
        /\ UNCHANGED <<form, dialog, original, last, waived, deleted>>
    BY <1>12 DEF Commits, UnderWay
  <2>2. Alone' /\ Harmless' /\ New'
    BY <1>1, <2>1 DEF DuplicateInv, Alone, Harmless, New, UnderWay, TypeInv, TypeOK
  <2>3. \A d \in Codes : d # c /\ Live(d)' /\ original[d] = original[c] =>
                            original[c] \in waived
    BY <1>1, <2>1 DEF DuplicateInv, New, Owned, Live, TypeInv, TypeOK
  <2>4. DuplicatesAreKnown'
    BY <1>1, <2>1, <2>3 DEF DuplicateInv, DuplicatesAreKnown, Live, TypeInv, TypeOK
  <2> QED
    BY <1>1, <2>2, <2>4 DEF DuplicateInv
<1>13. ASSUME NEW c \in Codes, post[c] = "committed", post' = [post EXCEPT ![c] = "done"],
              UNCHANGED <<form, dialog, original, last, waived, deleted>>
       PROVE  DuplicateInv'
  <2>1. \A d \in Codes : ~ (post'[d] \in {"checking", "sent", "committed"})
    BY <1>1, <1>13 DEF DuplicateInv, Alone, UnderWay, TypeInv, TypeOK
  <2>2. Alone' /\ Harmless' /\ New'
    BY <2>1 DEF Alone, Harmless, New, UnderWay
  <2>3. DuplicatesAreKnown'
    BY <1>1, <1>13 DEF DuplicateInv, DuplicatesAreKnown, Live, TypeInv, TypeOK
  <2> QED
    BY <1>1, <2>2, <2>3 DEF DuplicateInv
<1>14. ASSUME NEW c \in Codes, CreateAnswered(c) \/ CreateFails(c)
       PROVE  DuplicateInv'
  BY <1>10, <1>13, <1>14 DEF CreateAnswered, CreateFails
<1>15. ASSUME NEW c \in Codes, CreateAnother(c)
       PROVE  DuplicateInv'
  <2>1. CASE form.url = None
    BY <1>2, <1>15, <2>1 DEF CreateAnother, Harmless
  <2>2. CASE form.url # None
    <3>1. /\ \A d \in Codes : ~ UnderWay(d)
          /\ post' = [post EXCEPT ![c] = "sent"]
          /\ original' = [original EXCEPT ![c] = form.url]
          /\ last' = c /\ waived' = waived \cup {form.url} /\ dialog' = "none"
          /\ deleted' = deleted
          /\ post[c] = "unsent"
      BY <1>15, <2>2 DEF CreateAnother, DialogShown, DuplicateInv, Harmless
    <3>2. Alone' /\ Harmless'
      BY <1>1, <3>1 DEF Alone, Harmless, UnderWay, TypeInv, TypeOK
    <3>3. New' /\ DuplicatesAreKnown'
      BY <1>1, <3>1 DEF DuplicateInv, New, DuplicatesAreKnown, Live, UnderWay, TypeInv, TypeOK
    <3> QED
      BY <1>1, <3>2, <3>3 DEF DuplicateInv
  <2> QED
    BY <2>1, <2>2
<1>16. ASSUME NEW c \in Codes, Publish(c)
       PROVE  DuplicateInv'
  BY <1>1, <1>16 DEF Publish, DuplicateInv, Alone, Harmless, New, Owned, Live,
                     DuplicatesAreKnown, UnderWay
<1>17. ASSUME NEW c \in Codes, Delete(c)
       PROVE  DuplicateInv'
  <2>1. deleted' = deleted \cup {c} /\ UNCHANGED <<form, dialog, post, original, last, waived>>
    BY <1>17 DEF Delete
  <2>2. \A d \in Codes : Live(d)' => Live(d)
    BY <2>1 DEF Live
  <2>3. Owned' \subseteq Owned
    BY <2>1, <2>2 DEF Owned
  <2>4. New' /\ DuplicatesAreKnown'
    BY <2>1, <2>2, <2>3 DEF DuplicateInv, New, DuplicatesAreKnown
  <2> QED
    BY <1>1, <2>1, <2>4 DEF DuplicateInv, Alone, Harmless, UnderWay
<1> QED
  BY <1>3, <1>4, <1>5, <1>6, <1>7, <1>8, <1>9, <1>11, <1>12, <1>14, <1>15, <1>16, <1>17
     DEF Next, OpenPalette, OpenBanner, Cancel, Reuse, TypeInv, TypeOK, DuplicateInv

LEMMA DuplicateInit == Init => DuplicateInv
BY TypeInit DEF Init, DuplicateInv, Alone, Harmless, New, Owned, Live, UnderWay,
               DuplicatesAreKnown

\* No URL with a live link of this modal gets a second one unless it was asked for or a
\* check failed, with any number of submissions and deletions (CreateURLModal.tsx:142 and
\* :297).
THEOREM DuplicatesAlwaysKnown == Spec => []DuplicatesAreKnown
<1>1. Spec => []DuplicateInv
  BY DuplicateInit, DuplicateStep, PTL DEF Spec
<1> QED
  BY <1>1, PTL DEF DuplicateInv
=============================================================================
