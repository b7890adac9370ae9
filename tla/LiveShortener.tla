--------------------------- MODULE LiveShortener ----------------------------
(***************************************************************************)
(* The shortener of the landing page: the two tabs of                      *)
(* components/landing/LiveShortener.tsx, the URL field with its preview    *)
(* (SmartUrlInput, useMetadataPreview), the clipboard prompt that talks to *)
(* it through window events, and the list of recent links in localStorage, *)
(* which other windows of the browser write as well (useRecentLinks).      *)
(*                                                                         *)
(* Every await (the POST, the QR image, the preview) is a request of its   *)
(* own whose answer finds the component in another state, or unmounted.    *)
(* A link is named by the request that creates it.  Texts are abstract:    *)
(* a URL is a value of Urls, the field may also be empty.                  *)
(***************************************************************************)
EXTENDS Sequences, FiniteSets, Naturals

CONSTANTS
  Urls,      \* what a user types or copies that is a URL
  Codes,     \* bound: the links created, named by their short codes
  Windows,   \* windows of the browser
  Here,      \* the window whose landing page is modelled in full
  MaxLinks,  \* MAX_LINKS of useRecentLinks
  None       \* no URL, no link, no image

ASSUME ConstantsAssumption ==
  /\ Here \in Windows
  /\ MaxLinks \in Nat \ {0}
  /\ None \notin Urls \cup Codes

Posted == {"unsent", "sent", "orphaned", "done"}

\* ShortenTab: url is the field; qr the link whose image is shown
Shorten == [url : Urls \cup {None}, result : Codes \cup {None}, isLoading : BOOLEAN,
            qr : Codes \cup {None}, qrLoading : BOOLEAN]
\* QRTab: qr is the URL whose image is shown
Generate == [inputUrl : Urls \cup {None}, qr : Urls \cup {None}, isLoading : BOOLEAN]
\* useMetadataPreview: due is the debounce timer, asked the requests not aborted
Preview == [metadata : Urls \cup {None}, due : BOOLEAN, asked : SUBSET Urls]

VARIABLES
  view,       \* the tab that is mounted
  shorten,    \* the state of ShortenTab
  generate,   \* the state of QRTab
  preview,    \* the preview of the mounted URL field
  post,       \* the POST requests
  qrAsked,    \* links whose QR image the mounted ShortenTab waits for
  genAsked,   \* URLs whose QR image the mounted QRTab waits for
  initialUrl, \* pasted by the prompt, not yet consumed by ShortenTab
  detectedUrl,
  dismissed,
  recent,     \* the list each window shows
  stored,     \* localStorage
  stale,      \* history: windows whose list misses a write of another
  removed,    \* history: links the user removed from a list
  qrRaced     \* history: the result went away under its QR image

ui == <<view, shorten, generate>>
requests == <<post, qrAsked, genAsked>>
prompt == <<initialUrl, detectedUrl, dismissed>>
lists == <<recent, stored, stale, removed>>
vars == <<ui, preview, requests, prompt, lists, qrRaced>>

BoundedSeq(S, n) == UNION {[1..k -> S] : k \in 0..n}

TypeOK ==
  /\ view \in {"shorten", "qr"}
  /\ shorten \in Shorten
  /\ generate \in Generate
  /\ preview \in Preview
  /\ post \in [Codes -> Posted]
  /\ qrAsked \subseteq Codes
  /\ genAsked \subseteq Urls
  /\ {initialUrl, detectedUrl} \subseteq Urls \cup {None}
  /\ dismissed \in BOOLEAN
  /\ recent \in [Windows -> BoundedSeq(Codes, MaxLinks)]
  /\ stored \in BoundedSeq(Codes, MaxLinks)
  /\ stale \subseteq Windows
  /\ removed \subseteq Codes
  /\ qrRaced \in BOOLEAN

NewShorten == [url |-> None, result |-> None, isLoading |-> FALSE, qr |-> None,
               qrLoading |-> FALSE]
NewGenerate == [inputUrl |-> None, qr |-> None, isLoading |-> FALSE]
NewPreview == [metadata |-> None, due |-> FALSE, asked |-> {}]

Init ==
  /\ view = "shorten"
  /\ shorten = NewShorten
  /\ generate = NewGenerate
  /\ preview = NewPreview
  /\ post = [c \in Codes |-> "unsent"]
  /\ qrAsked = {} /\ genAsked = {}
  /\ initialUrl = None /\ detectedUrl = None
  /\ dismissed \in BOOLEAN                \* sessionStorage of an earlier visit
  /\ recent = [w \in Windows |-> <<>>]
  /\ stored = <<>>
  /\ stale = {} /\ removed = {}
  /\ qrRaced = FALSE

Elements(s) == {s[i] : i \in DOMAIN s}

\* ------------------------------------------------------------- what is shown
\* ShortenTab shows its form until there is a result, QRTab until there is an image.
FormShown == IF view = "shorten" THEN shorten.result = None ELSE generate.qr = None
ResultShown == view = "shorten" /\ shorten.result # None
ImageShown == ResultShown /\ shorten.qr # None
GeneratedShown == view = "qr" /\ generate.qr # None
PromptShown == ~ dismissed /\ detectedUrl # None

\* The value of the mounted field.
Field == IF view = "shorten" THEN shorten.url ELSE generate.inputUrl

\* ------------------------------------------------------- useMetadataPreview
\* mutant: a late answer for an earlier value is not aborted.
RetargetWithoutAbort(p, u) ==
  IF u = None THEN [p EXCEPT !.metadata = None, !.due = FALSE]
  ELSE [p EXCEPT !.due = TRUE]

\* The effect runs when the value changes: the cleanup stops the timer and aborts the
\* request; what is shown stays until the next answer, or goes when there is no URL.
Retarget(p, u) ==
  IF u = None THEN [p EXCEPT !.metadata = None, !.due = FALSE, !.asked = {}]
  ELSE [p EXCEPT !.due = TRUE, !.asked = {}]

\* The preview of the field after a step of the page: a field that is no longer mounted
\* has none, one just mounted starts anew.
PreviewAfter(shown, u) ==
  preview' = IF ~ shown THEN NewPreview
             ELSE IF ~ FormShown \/ view' # view
             THEN Retarget(NewPreview, u)
             ELSE IF u = Field THEN preview
             ELSE Retarget(preview, u)

Follow ==
  PreviewAfter(IF view' = "shorten" THEN shorten'.result = None ELSE generate'.qr = None,
               IF view' = "shorten" THEN shorten'.url ELSE generate'.inputUrl)

PreviewAsks ==
  /\ preview.due
  /\ preview' = [preview EXCEPT !.due = FALSE, !.asked = @ \cup {Field}]
  /\ UNCHANGED <<ui, requests, prompt, lists, qrRaced>>

PreviewAnswered(u, title) ==
  /\ u \in preview.asked
  /\ preview' = [preview EXCEPT !.metadata = IF title THEN u ELSE None,
                                !.asked = @ \ {u}]
  /\ UNCHANGED <<ui, requests, prompt, lists, qrRaced>>

\* ------------------------------------------------------------ useRecentLinks
\* Every operation edits the list this window has in memory and saves the whole of it.
Save(w, list) ==
  /\ recent' = [recent EXCEPT ![w] = list]
  /\ stored' = list
  /\ stale' = stale \cup (Windows \ {w})

Take(s, n) == SubSeq(s, 1, IF Len(s) < n THEN Len(s) ELSE n)

\* filter: every other element of a list, in its order
Without(s, c) ==
  LET kept[i \in 0..Len(s)] ==
        IF i = 0 THEN <<>>
        ELSE IF s[i] = c THEN kept[i - 1] ELSE Append(kept[i - 1], s[i])
  IN kept[Len(s)]

AddLink(w, c) ==
  /\ Save(w, Take(<<c>> \o Without(recent[w], c), MaxLinks))
  /\ UNCHANGED removed

\* mutant: a window starts with an empty list.
LoadLinksEmpty ==
  /\ recent' = [recent EXCEPT ![Here] = <<>>]
  /\ stale' = stale \ {Here}
  /\ UNCHANGED <<stored, removed>>

\* The list is read from localStorage once, when the component is mounted.
LoadLinks ==
  /\ recent' = [recent EXCEPT ![Here] = stored]
  /\ stale' = stale \ {Here}
  /\ UNCHANGED <<stored, removed>>

ListShown(w) == w = Here => view = "shorten"

RemoveLink(w, c) ==
  /\ ListShown(w)
  /\ c \in Elements(recent[w])
  /\ Save(w, Without(recent[w], c))
  /\ removed' = removed \cup {c}
  /\ UNCHANGED <<ui, preview, requests, prompt, qrRaced>>

\* toggleFavorite and togglePin: only the flags of a link change
Toggle(w) ==
  /\ ListShown(w)
  /\ recent[w] # <<>>
  /\ Save(w, recent[w])
  /\ UNCHANGED <<ui, preview, requests, prompt, removed, qrRaced>>

\* Another window shortens a URL.
AddElsewhere(w, c) ==
  /\ w # Here
  /\ post[c] = "unsent"
  /\ post' = [post EXCEPT ![c] = "done"]
  /\ AddLink(w, c)
  /\ UNCHANGED <<ui, preview, qrAsked, genAsked, prompt, qrRaced>>

Reopen(w) ==
  /\ w # Here
  /\ recent' = [recent EXCEPT ![w] = stored]
  /\ stale' = stale \ {w}
  /\ UNCHANGED <<ui, preview, requests, prompt, stored, removed, qrRaced>>

\* ----------------------------------------------------------------- the field
Type(u) ==
  /\ FormShown
  /\ u # Field
  /\ IF view = "shorten"
     THEN shorten' = [shorten EXCEPT !.url = u] /\ UNCHANGED generate
     ELSE generate' = [generate EXCEPT !.inputUrl = u] /\ UNCHANGED shorten
  /\ UNCHANGED view
  /\ Follow
  /\ UNCHANGED <<requests, prompt, lists, qrRaced>>

\* What isValidUrl accepts: with or without its scheme, but not an empty text.
Valid(u) == u # None

\* ---------------------------------------------------------------- ShortenTab
\* A POST is sent: the result is cleared and the spinner shown.
Send(c, u) ==
  /\ post[c] = "unsent"
  /\ post' = [post EXCEPT ![c] = "sent"]
  /\ shorten' = [shorten EXCEPT !.url = u, !.result = None, !.isLoading = TRUE]

\* handleShorten: the button is disabled while a POST is out, Enter in the field is not.
Submit(c) ==
  /\ view = "shorten" /\ FormShown /\ Valid(shorten.url)
  /\ Send(c, shorten.url)
  /\ UNCHANGED <<view, generate, preview, qrAsked, genAsked, prompt, lists, qrRaced>>

\* mutant: the link is shown only.
PostAnsweredUnlisted(c) ==
  /\ post[c] = "sent"
  /\ post' = [post EXCEPT ![c] = "done"]
  /\ shorten' = [shorten EXCEPT !.result = c, !.isLoading = FALSE]
  /\ qrRaced' = (qrRaced \/ (ResultShown /\ (ImageShown \/ qrAsked # {})))
  /\ UNCHANGED <<view, generate>>
  /\ Follow
  /\ UNCHANGED <<qrAsked, genAsked, prompt, lists>>

\* The answer shows the link and adds it to the list.  "qrRaced": it takes the place of
\* another result whose image is shown or on its way.
PostAnswered(c) ==
  /\ post[c] = "sent"
  /\ post' = [post EXCEPT ![c] = "done"]
  /\ shorten' = [shorten EXCEPT !.result = c, !.isLoading = FALSE]
  /\ AddLink(Here, c)
  /\ qrRaced' = (qrRaced \/ (ResultShown /\ (ImageShown \/ qrAsked # {})))
  /\ UNCHANGED <<view, generate>>
  /\ Follow
  /\ UNCHANGED <<qrAsked, genAsked, prompt>>

\* mutant: the spinner is not stopped by an error.
PostFailsSpinning(c) ==
  /\ post[c] = "sent"
  /\ post' = [post EXCEPT ![c] = "done"]
  /\ UNCHANGED <<ui, preview, qrAsked, genAsked, prompt, lists, qrRaced>>

PostFails(c) ==
  /\ post[c] = "sent"
  /\ post' = [post EXCEPT ![c] = "done"]
  /\ shorten' = [shorten EXCEPT !.isLoading = FALSE]
  /\ UNCHANGED <<view, generate, preview, qrAsked, genAsked, prompt, lists, qrRaced>>

\* The link is made, but the component that asked for it is gone: nobody hears of it.
OrphanAnswered(c) ==
  /\ post[c] = "orphaned"
  /\ post' = [post EXCEPT ![c] = "done"]
  /\ UNCHANGED <<ui, preview, qrAsked, genAsked, prompt, lists, qrRaced>>

\* mutant: the image outlives its link.
ResetKeepsImage ==
  /\ ResultShown
  /\ shorten' = [shorten EXCEPT !.url = None, !.result = None, !.qrLoading = FALSE]
  /\ qrRaced' = (qrRaced \/ qrAsked # {})
  /\ UNCHANGED <<view, generate>>
  /\ Follow
  /\ UNCHANGED <<requests, prompt, lists>>

\* handleReset: "Shorten Another Link"
Reset ==
  /\ ResultShown
  /\ shorten' = [shorten EXCEPT !.url = None, !.result = None, !.qr = None, !.qrLoading = FALSE]
  /\ qrRaced' = (qrRaced \/ qrAsked # {})
  /\ UNCHANGED <<view, generate>>
  /\ Follow
  /\ UNCHANGED <<requests, prompt, lists>>

\* handleShowQr: hides the image, or fetches it
HideQr ==
  /\ ImageShown /\ ~ shorten.qrLoading
  /\ shorten' = [shorten EXCEPT !.qr = None]
  /\ UNCHANGED <<view, generate, preview, requests, prompt, lists, qrRaced>>

ShowQr ==
  /\ ResultShown /\ ~ ImageShown /\ ~ shorten.qrLoading
  /\ shorten' = [shorten EXCEPT !.qrLoading = TRUE]
  /\ qrAsked' = qrAsked \cup {shorten.result}
  /\ UNCHANGED <<view, generate, preview, post, genAsked, prompt, lists, qrRaced>>

\* The image is shown whatever the result is by now.
QrAnswered(c, ok) ==
  /\ c \in qrAsked
  /\ qrAsked' = qrAsked \ {c}
  /\ shorten' = [shorten EXCEPT !.qr = IF ok THEN c ELSE @, !.qrLoading = FALSE]
  /\ UNCHANGED <<view, generate, preview, post, genAsked, prompt, lists, qrRaced>>

\* --------------------------------------------------------------------- QRTab
\* mutant: an empty field is sent.
GenerateQrEmpty ==
  /\ view = "qr" /\ FormShown
  /\ generate' = [generate EXCEPT !.qr = None, !.isLoading = TRUE]
  /\ genAsked' = genAsked \cup {generate.inputUrl}
  /\ UNCHANGED <<view, shorten, preview, post, qrAsked, prompt, lists, qrRaced>>

\* handleGenerate, with the field still editable
GenerateQr ==
  /\ view = "qr" /\ FormShown /\ Valid(generate.inputUrl)
  /\ generate' = [generate EXCEPT !.qr = None, !.isLoading = TRUE]
  /\ genAsked' = genAsked \cup {generate.inputUrl}
  /\ UNCHANGED <<view, shorten, preview, post, qrAsked, prompt, lists, qrRaced>>

GenAnswered(u, ok) ==
  /\ u \in genAsked
  /\ genAsked' = genAsked \ {u}
  /\ generate' = [generate EXCEPT !.qr = IF ok THEN u ELSE @, !.isLoading = FALSE]
  /\ UNCHANGED <<view, shorten>>
  /\ Follow
  /\ UNCHANGED <<post, qrAsked, prompt, lists, qrRaced>>

GenerateNew ==
  /\ GeneratedShown
  /\ generate' = [generate EXCEPT !.qr = None, !.inputUrl = None]
  /\ UNCHANGED <<view, shorten>>
  /\ Follow
  /\ UNCHANGED <<requests, prompt, lists, qrRaced>>

\* ------------------------------------------------------------------ the tabs
\* One tab is unmounted with its state, its answers are lost, the other one is mounted
\* anew; ShortenTab takes a pasted URL and reads the list.  open-qr does the same.
OpenQr ==
  /\ view = "shorten"
  /\ view' = "qr"
  /\ shorten' = NewShorten /\ generate' = NewGenerate
  /\ post' = [c \in Codes |-> IF post[c] = "sent" THEN "orphaned" ELSE post[c]]
  /\ qrAsked' = {}
  /\ Follow
  /\ UNCHANGED <<genAsked, prompt, lists, qrRaced>>

OpenShorten ==
  /\ view = "qr"
  /\ view' = "shorten"
  /\ shorten' = [NewShorten EXCEPT !.url = initialUrl] /\ generate' = NewGenerate
  /\ initialUrl' = None
  /\ genAsked' = {}
  /\ LoadLinks
  /\ Follow
  /\ UNCHANGED <<post, qrAsked, detectedUrl, dismissed, qrRaced>>

\* ---------------------------------------------------- LandingClipboardPrompt
\* A URL in the clipboard: on a paste anywhere, and on the first click and key
Detect(u) ==
  /\ detectedUrl # u
  /\ detectedUrl' = u
  /\ UNCHANGED <<ui, preview, requests, initialUrl, dismissed, lists, qrRaced>>

\* "Shorten" sends an event: ShortenTab posts the URL over whatever it shows, and keeps
\* the QR image of the result before.
PromptShortens(c) ==
  /\ PromptShown
  /\ view = "shorten"
  /\ Send(c, detectedUrl)
  /\ detectedUrl' = None
  /\ qrRaced' = (qrRaced \/ shorten.qr # None \/ qrAsked # {})
  /\ UNCHANGED <<view, generate>>
  /\ Follow
  /\ UNCHANGED <<qrAsked, genAsked, initialUrl, dismissed, lists>>

\* ... which nobody hears while QRTab is mounted.
PromptUnheard ==
  /\ PromptShown
  /\ view = "qr"
  /\ detectedUrl' = None
  /\ UNCHANGED <<ui, preview, requests, initialUrl, dismissed, lists, qrRaced>>

\* "Paste" puts the URL into the field of ShortenTab, now or when it is mounted next.
PromptPastes ==
  /\ PromptShown
  /\ detectedUrl' = None
  /\ IF view = "shorten"
     THEN shorten' = [shorten EXCEPT !.url = detectedUrl] /\ UNCHANGED initialUrl
     ELSE initialUrl' = detectedUrl /\ UNCHANGED shorten
  /\ UNCHANGED <<view, generate>>
  /\ Follow
  /\ UNCHANGED <<requests, dismissed, lists, qrRaced>>

PromptDismissed ==
  /\ PromptShown
  /\ dismissed' = TRUE
  /\ detectedUrl' = None
  /\ UNCHANGED <<ui, preview, requests, initialUrl, lists, qrRaced>>

\* ------------------------------------------------------------- specification
Next ==
  \/ PreviewAsks
  \/ \E u \in Urls, title \in BOOLEAN : PreviewAnswered(u, title)
  \/ \E u \in Urls \cup {None} : Type(u)
  \/ \E c \in Codes : Submit(c) \/ PostAnswered(c) \/ PostFails(c) \/ OrphanAnswered(c)
  \/ Reset \/ HideQr \/ ShowQr
  \/ \E c \in Codes, ok \in BOOLEAN : QrAnswered(c, ok)
  \/ GenerateQr \/ GenerateNew
  \/ \E u \in Urls, ok \in BOOLEAN : GenAnswered(u, ok)
  \/ OpenQr \/ OpenShorten
  \/ \E u \in Urls : Detect(u)
  \/ \E c \in Codes : PromptShortens(c)
  \/ PromptUnheard \/ PromptPastes \/ PromptDismissed
  \/ \E w \in Windows, c \in Codes : RemoveLink(w, c) \/ AddElsewhere(w, c)
  \/ \E w \in Windows : Toggle(w) \/ Reopen(w)

Spec == Init /\ [][Next]_vars

\* ----------------------------------------------------------------- properties
\* The spinner of the form turns for a POST that is really out: no order of answers,
\* resets and tab switches leaves it on (the finally of LiveShortener.tsx:97 and :176).
LoadingIsReal == shorten.isLoading => \E c \in Codes : post[c] = "sent"

\* The QR image under a result is the one of that result, as long as no result went away
\* under its image (LiveShortener.tsx:225 sets it whatever the result is by then).
QrIsOfResult == ImageShown /\ ~ qrRaced => shorten.qr = shorten.result

\* A link that is shown as the result is in the list of recent links, unless the user
\* removed it there (LiveShortener.tsx:85 and :151 add it with the result).
ResultIsRemembered == ResultShown => shorten.result \in Elements(recent[Here]) \cup removed

\* A preview at rest belongs to the URL in the field, although answers for earlier values
\* come late (the abort of useMetadataPreview.ts:43).
PreviewIsOfField ==
  ~ preview.due /\ preview.asked = {} => preview.metadata \in {None, Field}

\* A link disappears from localStorage only when the user removes it, when MAX_LINKS newer
\* ones push it out, or when a window writes that missed a write of another
\* (useRecentLinks.ts:38, :52, :60 and :70 save the list in memory).
NoSilentLoss ==
  [][\A c \in Elements(stored) \ Elements(stored') :
       \/ c \in removed'
       \/ Len(stored') = MaxLinks
       \/ \E w \in stale : stored' = recent'[w]]_vars
=============================================================================
