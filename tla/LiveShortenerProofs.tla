------------------------- MODULE LiveShortenerProofs ------------------------
(***************************************************************************)
(* The landing shortener for any number of URLs, links and windows.  First *)
(* the page: the spinner, the image and the preview belong to what it      *)
(* shows.  Then the recent links, on which nothing of that depends: the    *)
(* result is among them, and only known steps lose one.                    *)
(***************************************************************************)
EXTENDS LiveShortener, NaturalsInduction, WellFoundedInduction, TLAPS

USE ConstantsAssumption

\* The types of the page and of its requests: TypeOK without the lists of recent links
PageType ==
  /\ view \in {"shorten", "qr"}
  /\ shorten \in Shorten
  /\ generate \in Generate
  /\ preview \in Preview
  /\ post \in [Codes -> Posted]
  /\ qrAsked \subseteq Codes
  /\ genAsked \subseteq Urls
  /\ initialUrl \in Urls \cup {None}
  /\ detectedUrl \in Urls \cup {None}

\* The image shown, and those asked for, are of the result: no other link was shown while
\* there were any.
ImagesOfResult ==
  ~ qrRaced =>
    /\ shorten.qr # None => shorten.qr = shorten.result
    /\ qrAsked \subseteq {shorten.result}

\* A request for a preview is for the field as it is, and there is none while the field is
\* being typed.
AskedOfField ==
  /\ preview.due => preview.asked = {} /\ Field # None
  /\ ~ preview.due => preview.asked \subseteq {Field}
  /\ preview.metadata \in {None, Field} \/ preview.due \/ preview.asked # {}

\* An answer that will be heard was asked for by the tab that is mounted.
SentFromHere == view = "qr" => qrAsked = {} /\ \A c \in Codes : post[c] # "sent"

Inv == PageType /\ LoadingIsReal /\ ImagesOfResult /\ AskedOfField /\ SentFromHere

LEMMA InitInv == Init => Inv
<1> SUFFICES ASSUME Init PROVE Inv
  OBVIOUS
<1>1. shorten \in Shorten /\ generate \in Generate /\ preview \in Preview
  BY DEF Init, NewShorten, NewGenerate, NewPreview, Shorten, Generate, Preview
<1>2. PageType
  BY <1>1 DEF Init, PageType, Posted
<1>3. LoadingIsReal /\ ImagesOfResult /\ AskedOfField /\ SentFromHere
  BY DEF Init, NewShorten, NewPreview, LoadingIsReal, ImagesOfResult, AskedOfField, SentFromHere
<1> QED
  BY <1>2, <1>3 DEF Inv

LEMMA RetargetInv ==
  ASSUME NEW p \in Preview, NEW u \in Urls \cup {None}
  PROVE  LET now == Retarget(p, u)
         IN  /\ now \in Preview /\ now.asked = {}
             /\ now.metadata = None \/ now.due
             /\ now.due => u # None
BY DEF Retarget, Preview

\* Where a step calls Follow, the preview is that of the field after it.
LEMMA FollowInv ==
  ASSUME PageType, AskedOfField, Follow, Field' \in Urls \cup {None}
  PROVE  preview' \in Preview /\ AskedOfField'
<1>1. preview \in Preview
  BY DEF PageType
<1>2. NewPreview \in Preview /\ NewPreview.metadata = None /\ NewPreview.asked = {}
      /\ ~ NewPreview.due
  BY DEF NewPreview, Preview
<1>3. \/ preview' = NewPreview
      \/ preview' = Retarget(NewPreview, Field')
      \/ preview' = preview /\ Field' = Field
      \/ preview' = Retarget(preview, Field')
  BY DEF Follow, PreviewAfter, Field
<1>4. CASE preview' = NewPreview
  BY <1>2, <1>4 DEF AskedOfField
<1>5. CASE preview' = Retarget(NewPreview, Field') \/ preview' = Retarget(preview, Field')
  BY <1>1, <1>2, <1>5, RetargetInv DEF AskedOfField
<1>6. CASE preview' = preview /\ Field' = Field
  BY <1>1, <1>6 DEF AskedOfField
<1> QED
  BY <1>3, <1>4, <1>5, <1>6

\* The field is part of the page.
LEMMA FieldType ==
  ASSUME shorten \in Shorten, generate \in Generate
  PROVE  Field \in Urls \cup {None}
BY DEF Field, Shorten, Generate

\* A step that leaves the field and its preview alone
LEMMA FieldStays ==
  ASSUME AskedOfField, preview' = preview, Field' = Field
  PROVE  AskedOfField'
BY DEF AskedOfField

LEMMA NextInv == Inv /\ [Next]_vars => Inv'
<1> SUFFICES ASSUME Inv, [Next]_vars PROVE Inv'
  OBVIOUS
<1> USE DEF ui, requests, prompt
<1>1. /\ PageType /\ LoadingIsReal /\ ImagesOfResult /\ AskedOfField /\ SentFromHere
      /\ shorten \in Shorten /\ generate \in Generate /\ preview \in Preview
      /\ post \in [Codes -> Posted]
  BY DEF Inv, PageType
\* Steps that change neither tab nor the images asked for
<1>2. CASE UNCHANGED <<ui, requests, qrRaced>> /\ initialUrl' \in Urls \cup {None}
           /\ detectedUrl' \in Urls \cup {None} /\ preview' \in Preview /\ AskedOfField'
  BY <1>1, <1>2 DEF Inv, PageType, LoadingIsReal, ImagesOfResult, SentFromHere
<1>3. CASE PreviewAsks
  <2>1. /\ preview'.due = FALSE /\ preview'.asked = {Field}
        /\ preview.asked = {} /\ Field \in Urls
    BY <1>1, <1>3, FieldType DEF PreviewAsks, Preview, AskedOfField
  <2>2. Field' = Field
    BY <1>3 DEF PreviewAsks, Field
  <2>3. preview' \in Preview /\ AskedOfField'
    BY <1>1, <1>3, <2>1, <2>2 DEF PreviewAsks, Preview, AskedOfField
  <2> QED
    BY <1>1, <1>2, <1>3, <2>3 DEF PreviewAsks, PageType
<1>4. ASSUME NEW u \in Urls, NEW title \in BOOLEAN, PreviewAnswered(u, title)
      PROVE  Inv'
  <2>1. /\ ~ preview.due /\ u = Field /\ Field' = Field /\ preview.asked = {Field}
    BY <1>1, <1>4 DEF PreviewAnswered, AskedOfField, Field
  <2>2. preview' \in Preview /\ AskedOfField'
    BY <1>1, <1>4, <2>1 DEF PreviewAnswered, Preview, AskedOfField
  <2> QED
    BY <1>1, <1>2, <1>4, <2>2 DEF PreviewAnswered, PageType
<1>5. CASE UNCHANGED <<ui, preview, requests, qrRaced>>
           /\ initialUrl' \in Urls \cup {None} /\ detectedUrl' \in Urls \cup {None}
  <2>1. Field' = Field
    BY <1>5 DEF Field
  <2> QED
    BY <1>1, <1>2, <1>5, <2>1, FieldStays
<1>6. ASSUME NEW w \in Windows, NEW c \in Codes, RemoveLink(w, c) \/ AddElsewhere(w, c)
      PROVE  Inv'
  <2>1. CASE RemoveLink(w, c)
    BY <1>1, <1>5, <2>1 DEF RemoveLink, PageType
  <2>2. CASE AddElsewhere(w, c)
    <3>1. /\ post[c] = "unsent" /\ post' = [post EXCEPT ![c] = "done"]
          /\ UNCHANGED <<ui, preview, qrAsked, genAsked, prompt, qrRaced>>
      BY <2>2 DEF AddElsewhere
    <3>2. PageType'
      BY <1>1, <3>1 DEF PageType, Posted
    <3>3. LoadingIsReal' /\ SentFromHere'
      BY <1>1, <3>1 DEF LoadingIsReal, SentFromHere
    <3>4. AskedOfField'
      BY <1>1, <3>1, FieldStays DEF Field
    <3> QED
      BY <1>1, <3>1, <3>2, <3>3, <3>4 DEF Inv, ImagesOfResult
  <2> QED
    BY <1>6, <2>1, <2>2
<1>7. ASSUME NEW w \in Windows, Toggle(w) \/ Reopen(w)
      PROVE  Inv'
  BY <1>1, <1>5, <1>7 DEF Toggle, Reopen, PageType
<1>8. ASSUME NEW u \in Urls, Detect(u)
      PROVE  Inv'
  BY <1>1, <1>5, <1>8 DEF Detect, PageType
<1>9. CASE PromptUnheard \/ PromptDismissed \/ UNCHANGED vars
  BY <1>1, <1>5, <1>9 DEF PromptUnheard, PromptDismissed, PageType, vars
\* Steps that change the state of the tab and call Follow
<1>10. CASE Follow /\ shorten' \in Shorten /\ generate' \in Generate
            /\ view' \in {"shorten", "qr"} /\ post' \in [Codes -> Posted]
            /\ qrAsked' \subseteq Codes /\ genAsked' \subseteq Urls
            /\ initialUrl' \in Urls \cup {None} /\ detectedUrl' \in Urls \cup {None}
            /\ LoadingIsReal' /\ ImagesOfResult' /\ SentFromHere'
  <2>1. Field' \in Urls \cup {None}
    BY <1>10 DEF Field, Shorten, Generate
  <2>2. preview' \in Preview /\ AskedOfField'
    BY <1>1, <1>10, <2>1, FollowInv
  <2> QED
    BY <1>10, <2>2 DEF Inv, PageType
<1>11. ASSUME NEW u \in Urls \cup {None}, Type(u)
       PROVE  Inv'
  <2>1. CASE view = "shorten"
    <3>1. /\ shorten' = [shorten EXCEPT !.url = u]
          /\ UNCHANGED <<view, generate, requests, prompt, qrRaced>> /\ Follow
      BY <1>11, <2>1 DEF Type
    <3>2. /\ shorten' \in Shorten /\ shorten'.result = shorten.result
          /\ shorten'.isLoading = shorten.isLoading /\ shorten'.qr = shorten.qr
      BY <1>1, <3>1 DEF Shorten
    <3> QED
      BY <1>1, <1>10, <3>1, <3>2 DEF PageType, LoadingIsReal, ImagesOfResult,
                                         SentFromHere
  <2>2. CASE view # "shorten"
    <3>1. /\ generate' = [generate EXCEPT !.inputUrl = u]
          /\ UNCHANGED <<view, shorten, requests, prompt, qrRaced>> /\ Follow
      BY <1>11, <2>2 DEF Type
    <3>2. generate' \in Generate
      BY <1>1, <3>1 DEF Generate
    <3> QED
      BY <1>1, <1>10, <3>1, <3>2 DEF PageType, LoadingIsReal, ImagesOfResult,
                                         SentFromHere
  <2> QED
    BY <2>1, <2>2
<1>12. ASSUME NEW c \in Codes, Submit(c)
       PROVE  Inv'
  <2>1. /\ view = "shorten" /\ shorten.result = None
        /\ post' = [post EXCEPT ![c] = "sent"]
        /\ shorten' = [shorten EXCEPT !.url = shorten.url, !.result = None, !.isLoading = TRUE]
        /\ UNCHANGED <<view, generate, preview, qrAsked, genAsked, prompt, qrRaced>>
    BY <1>12 DEF Submit, Send, FormShown
  <2>2. /\ shorten' \in Shorten /\ shorten'.url = shorten.url
        /\ shorten'.result = shorten.result /\ shorten'.qr = shorten.qr
    BY <1>1, <2>1 DEF Shorten
  <2>3. post' \in [Codes -> Posted] /\ post'[c] = "sent"
    BY <1>1, <2>1 DEF Posted
  <2>4. AskedOfField'
    BY <1>1, <2>1, <2>2, FieldStays DEF Field
  <2> QED
    BY <1>1, <2>1, <2>2, <2>3, <2>4 DEF Inv, PageType, LoadingIsReal, ImagesOfResult,
                                        SentFromHere
<1>13. ASSUME NEW c \in Codes, PostAnswered(c)
       PROVE  Inv'
  <2>1. /\ post' = [post EXCEPT ![c] = "done"]
        /\ shorten' = [shorten EXCEPT !.result = c, !.isLoading = FALSE]
        /\ qrRaced' = (qrRaced \/ (ResultShown /\ (ImageShown \/ qrAsked # {})))
        /\ UNCHANGED <<view, generate, qrAsked, genAsked, prompt>> /\ Follow
    BY <1>13 DEF PostAnswered
  <2>2. /\ shorten' \in Shorten /\ shorten'.result = c /\ shorten'.isLoading = FALSE
        /\ shorten'.qr = shorten.qr
    BY <1>1, <2>1 DEF Shorten
  <2>3. post' \in [Codes -> Posted]
    BY <1>1, <2>1 DEF Posted
  <2>4. ImagesOfResult'
    <3>1. view = "shorten"
      BY <1>1, <1>13 DEF PostAnswered, PageType, SentFromHere
    <3>2. ~ qrRaced' => qrAsked = {} /\ shorten.qr = None
      <4>1. CASE shorten.result = None
        BY <1>1, <2>1, <4>1 DEF ImagesOfResult, PageType
      <4>2. CASE shorten.result # None
        BY <2>1, <3>1, <4>2 DEF ResultShown, ImageShown
      <4> QED
        BY <4>1, <4>2
    <3> QED
      BY <2>1, <2>2, <3>2 DEF ImagesOfResult
  <2>5. SentFromHere'
    BY <1>1, <2>1 DEF SentFromHere, PageType
  <2> QED
    BY <1>1, <1>10, <2>1, <2>2, <2>3, <2>4, <2>5 DEF PageType, LoadingIsReal
<1>14. ASSUME NEW c \in Codes, PostFails(c) \/ OrphanAnswered(c)
       PROVE  Inv'
  <2>1. /\ post' = [post EXCEPT ![c] = "done"]
        /\ UNCHANGED <<view, generate, preview, qrAsked, genAsked, prompt, qrRaced>>
        /\ \/ shorten' = [shorten EXCEPT !.isLoading = FALSE]
           \/ shorten' = shorten /\ post[c] # "sent"
    BY <1>14 DEF PostFails, OrphanAnswered
  <2>2. /\ shorten' \in Shorten /\ shorten'.url = shorten.url
        /\ shorten'.result = shorten.result /\ shorten'.qr = shorten.qr
        /\ shorten'.isLoading => shorten.isLoading /\ post[c] # "sent"
    BY <1>1, <2>1 DEF Shorten
  <2>3. post' \in [Codes -> Posted] /\ \A d \in Codes : d # c => post'[d] = post[d]
    BY <1>1, <2>1 DEF Posted
  <2>4. AskedOfField'
    BY <1>1, <2>1, <2>2, FieldStays DEF Field
  <2>5. LoadingIsReal'
    BY <1>1, <2>2, <2>3 DEF LoadingIsReal
  <2>6. SentFromHere'
    BY <1>1, <2>1 DEF SentFromHere, PageType
  <2> QED
    BY <1>1, <2>1, <2>2, <2>3, <2>4, <2>5, <2>6 DEF Inv, PageType, ImagesOfResult
<1>15. CASE Reset
  <2>1. /\ shorten' = [shorten EXCEPT !.url = None, !.result = None, !.qr = None,
                                     !.qrLoading = FALSE]
        /\ qrRaced' = (qrRaced \/ qrAsked # {})
        /\ UNCHANGED <<view, generate, requests, prompt>> /\ Follow
    BY <1>15 DEF Reset
  <2>2. /\ shorten' \in Shorten /\ shorten'.qr = None
        /\ shorten'.isLoading = shorten.isLoading
    BY <1>1, <2>1 DEF Shorten
  <2>3. ImagesOfResult'
    BY <2>1, <2>2 DEF ImagesOfResult
  <2> QED
    BY <1>1, <1>10, <2>1, <2>2, <2>3 DEF PageType, LoadingIsReal, SentFromHere
<1>16. CASE HideQr \/ ShowQr
  <2>1. CASE HideQr
    <3>1. /\ shorten' = [shorten EXCEPT !.qr = None]
          /\ UNCHANGED <<view, generate, preview, requests, prompt, qrRaced>>
      BY <2>1 DEF HideQr
    <3>2. /\ shorten' \in Shorten /\ shorten'.url = shorten.url /\ shorten'.qr = None
          /\ shorten'.result = shorten.result /\ shorten'.isLoading = shorten.isLoading
      BY <1>1, <3>1 DEF Shorten
    <3>3. AskedOfField'
      BY <1>1, <3>1, <3>2, FieldStays DEF Field
    <3> QED
      BY <1>1, <3>1, <3>2, <3>3 DEF Inv, PageType, LoadingIsReal, ImagesOfResult, SentFromHere
  <2>2. CASE ShowQr
    <3>1. /\ shorten' = [shorten EXCEPT !.qrLoading = TRUE]
          /\ qrAsked' = qrAsked \cup {shorten.result} /\ shorten.result # None
          /\ view = "shorten"
          /\ UNCHANGED <<view, generate, preview, post, genAsked, prompt, qrRaced>>
      BY <2>2 DEF ShowQr, ResultShown
    <3>2. /\ shorten' \in Shorten /\ shorten'.url = shorten.url /\ shorten'.qr = shorten.qr
          /\ shorten'.result = shorten.result /\ shorten'.isLoading = shorten.isLoading
          /\ shorten.result \in Codes
      BY <1>1, <3>1 DEF Shorten
    <3>3. AskedOfField'
      BY <1>1, <3>1, <3>2, FieldStays DEF Field
    <3> QED
      BY <1>1, <3>1, <3>2, <3>3 DEF Inv, PageType, LoadingIsReal, ImagesOfResult, SentFromHere
  <2> QED
    BY <1>16, <2>1, <2>2
<1>17. ASSUME NEW c \in Codes, NEW ok \in BOOLEAN, QrAnswered(c, ok)
       PROVE  Inv'
  <2>1. /\ c \in qrAsked /\ qrAsked' = qrAsked \ {c}
        /\ shorten' = [shorten EXCEPT !.qr = IF ok THEN c ELSE @, !.qrLoading = FALSE]
        /\ UNCHANGED <<view, generate, preview, post, genAsked, prompt, qrRaced>>
    BY <1>17 DEF QrAnswered
  <2>2. /\ shorten' \in Shorten /\ shorten'.url = shorten.url
        /\ shorten'.result = shorten.result /\ shorten'.isLoading = shorten.isLoading
        /\ shorten'.qr \in {c, shorten.qr}
    BY <1>1, <2>1 DEF Shorten
  <2>3. AskedOfField'
    BY <1>1, <2>1, <2>2, FieldStays DEF Field
  <2>4. ImagesOfResult'
    BY <1>1, <2>1, <2>2 DEF ImagesOfResult
  <2> QED
    BY <1>1, <2>1, <2>2, <2>3, <2>4 DEF Inv, PageType, LoadingIsReal, SentFromHere
<1>18. CASE GenerateQr
  <2>1. /\ generate' = [generate EXCEPT !.qr = None, !.isLoading = TRUE]
        /\ genAsked' = genAsked \cup {generate.inputUrl} /\ generate.inputUrl # None
        /\ UNCHANGED <<view, shorten, preview, post, qrAsked, prompt, qrRaced>>
    BY <1>18 DEF GenerateQr, Valid
  <2>2. /\ generate' \in Generate /\ generate'.inputUrl = generate.inputUrl
        /\ generate.inputUrl \in Urls
    BY <1>1, <2>1 DEF Generate
  <2>3. AskedOfField'
    BY <1>1, <2>1, <2>2, FieldStays DEF Field
  <2> QED
    BY <1>1, <2>1, <2>2, <2>3 DEF Inv, PageType, LoadingIsReal, ImagesOfResult, SentFromHere
<1>19. CASE GenerateNew \/ \E u \in Urls, ok \in BOOLEAN : GenAnswered(u, ok)
  <2>1. /\ UNCHANGED <<view, shorten, post, qrAsked, prompt, qrRaced>> /\ Follow
        /\ genAsked' \subseteq genAsked
        /\ \/ generate' = [generate EXCEPT !.qr = None, !.inputUrl = None]
           \/ \E u \in Urls, ok \in BOOLEAN :
                generate' = [generate EXCEPT !.qr = IF ok THEN u ELSE @, !.isLoading = FALSE]
    BY <1>19 DEF GenerateNew, GenAnswered
  <2>2. generate' \in Generate
    BY <1>1, <2>1 DEF Generate
  <2> QED
    BY <1>1, <1>10, <2>1, <2>2 DEF PageType, LoadingIsReal, ImagesOfResult, SentFromHere
<1>20. CASE OpenQr
  <2>1. /\ view' = "qr" /\ shorten' = NewShorten /\ generate' = NewGenerate
        /\ post' = [c \in Codes |-> IF post[c] = "sent" THEN "orphaned" ELSE post[c]]
        /\ qrAsked' = {} /\ UNCHANGED <<genAsked, prompt, qrRaced>> /\ Follow
    BY <1>20 DEF OpenQr
  <2>2. /\ shorten' \in Shorten /\ generate' \in Generate
        /\ shorten'.isLoading = FALSE /\ shorten'.qr = None
    BY <2>1 DEF NewShorten, NewGenerate, Shorten, Generate
  <2>3. post' \in [Codes -> Posted] /\ \A c \in Codes : post'[c] # "sent"
    BY <1>1, <2>1 DEF Posted
  <2> QED
    BY <1>1, <1>10, <2>1, <2>2, <2>3 DEF PageType, LoadingIsReal, ImagesOfResult, SentFromHere
<1>21. CASE OpenShorten
  <2>1. /\ view' = "shorten" /\ shorten' = [NewShorten EXCEPT !.url = initialUrl]
        /\ generate' = NewGenerate /\ initialUrl' = None /\ genAsked' = {}
        /\ UNCHANGED <<post, qrAsked, detectedUrl, qrRaced>> /\ Follow
    BY <1>21 DEF OpenShorten
  <2>2. /\ shorten' \in Shorten /\ generate' \in Generate
        /\ shorten'.isLoading = FALSE /\ shorten'.qr = None /\ shorten'.result = None
        /\ qrAsked = {}
    <3>1. shorten' = [url |-> initialUrl, result |-> None, isLoading |-> FALSE, qr |-> None,
                      qrLoading |-> FALSE]
      BY <2>1 DEF NewShorten
    <3>2. qrAsked = {}
      BY <1>1, <1>21 DEF OpenShorten, SentFromHere
    <3>3. generate' \in Generate
      BY <2>1 DEF NewGenerate, Generate
    <3> QED
      BY <1>1, <3>1, <3>2, <3>3 DEF Shorten, PageType
  <2> QED
    BY <1>1, <1>10, <2>1, <2>2 DEF PageType, LoadingIsReal, ImagesOfResult, SentFromHere
<1>22. ASSUME NEW c \in Codes, PromptShortens(c)
       PROVE  Inv'
  <2>1. /\ view = "shorten" /\ detectedUrl # None
        /\ post' = [post EXCEPT ![c] = "sent"]
        /\ shorten' = [shorten EXCEPT !.url = detectedUrl, !.result = None, !.isLoading = TRUE]
        /\ detectedUrl' = None
        /\ qrRaced' = (qrRaced \/ shorten.qr # None \/ qrAsked # {})
        /\ UNCHANGED <<view, generate, qrAsked, genAsked, initialUrl>> /\ Follow
    BY <1>22 DEF PromptShortens, PromptShown, Send
  <2>2. shorten' \in Shorten /\ shorten'.qr = shorten.qr
    BY <1>1, <2>1 DEF Shorten, PageType
  <2>3. post' \in [Codes -> Posted] /\ post'[c] = "sent"
    BY <1>1, <2>1 DEF Posted
  <2>4. ImagesOfResult'
    BY <2>1, <2>2 DEF ImagesOfResult
  <2> QED
    BY <1>1, <1>10, <2>1, <2>2, <2>3, <2>4 DEF PageType, LoadingIsReal, SentFromHere
<1>23. CASE PromptPastes
  <2>1. /\ detectedUrl' = None
        /\ \/ shorten' = [shorten EXCEPT !.url = detectedUrl] /\ UNCHANGED initialUrl
           \/ initialUrl' = detectedUrl /\ UNCHANGED shorten
        /\ UNCHANGED <<view, generate, requests, qrRaced>> /\ Follow
    BY <1>23 DEF PromptPastes
  <2>2. /\ shorten' \in Shorten /\ shorten'.result = shorten.result
        /\ shorten'.isLoading = shorten.isLoading /\ shorten'.qr = shorten.qr
        /\ initialUrl' \in Urls \cup {None}
    BY <1>1, <2>1 DEF Shorten, PageType
  <2> QED
    BY <1>1, <1>10, <2>1, <2>2 DEF PageType, LoadingIsReal, ImagesOfResult, SentFromHere
<1> QED
  BY <1>3, <1>4, <1>6, <1>7, <1>8, <1>9, <1>11, <1>12, <1>13, <1>14, <1>15, <1>16, <1>17,
     <1>18, <1>19, <1>20, <1>21, <1>22, <1>23 DEF Next

LEMMA InvAlways == Spec => []Inv
BY InitInv, NextInv, PTL DEF Spec

\* The spinner turns for a POST that is out, however many there are (LiveShortener.tsx:97
\* and :176).
THEOREM LoadingAlwaysReal == Spec => []LoadingIsReal
BY InvAlways, PTL DEF Inv

\* The image under a result is the one of that result, as long as no result went away under
\* its image (LiveShortener.tsx:225).
THEOREM QrAlwaysOfResult == Spec => []QrIsOfResult
<1>1. Inv => QrIsOfResult
  BY DEF Inv, ImagesOfResult, QrIsOfResult, ImageShown
<1> QED
  BY <1>1, InvAlways, PTL

\* A preview at rest is that of the field, whatever answers come late
\* (useMetadataPreview.ts:43).
THEOREM PreviewAlwaysOfField == Spec => []PreviewIsOfField
<1>1. Inv => PreviewIsOfField
  BY DEF Inv, AskedOfField, PreviewIsOfField
<1> QED
  BY <1>1, InvAlways, PTL

-----------------------------------------------------------------------------
(* The recent links.  A window that is not stale has the list of            *)
(* localStorage in memory, and every list is one that Save may write.       *)

\* Induction over the natural numbers, for a set of them: the least one missing has no
\* predecessor.
LEMMA SetInduction ==
  ASSUME NEW S, 0 \in S, \A n \in Nat : n \in S => n + 1 \in S
  PROVE  \A n \in Nat : n \in S
<1> DEFINE T == Nat \ S
<1> SUFFICES ASSUME T # {}
             PROVE  FALSE
  OBVIOUS
<1>1. T \subseteq Nat
  OBVIOUS
<1> HIDE DEF T
<1>3. PICK n \in T : \A m \in T : ~ (<<m, n>> \in OpToRel(<, Nat))
  BY <1>1, NatLessThanWellFounded, WFMin
<1>4. \A m \in T : ~ (m < n)
  BY <1>1, <1>3 DEF OpToRel
<1> USE DEF T
<1>5. n \in Nat /\ n # 0
  OBVIOUS
<1>6. n - 1 \in Nat /\ n - 1 < n /\ (n - 1) + 1 = n
  BY <1>5
<1>7. n - 1 \in S
  BY <1>4, <1>6
<1> QED
  BY <1>6, <1>7

\* What Without computes: g[i] are the elements but c among the first i.
IsKept(g, s, c, n) ==
  g = [i \in 0..n |-> IF i = 0 THEN <<>>
                       ELSE IF s[i] = c THEN g[i - 1] ELSE Append(g[i - 1], s[i])]

\* The function that Without defines by recursion exists ...
LEMMA KeptExists ==
  ASSUME NEW s, NEW c, NEW n \in Nat
  PROVE  \E g : IsKept(g, s, c, n)
<1> USE DEF IsKept
<1> DEFINE S == {k \in Nat : \E g : g = [i \in 0..k |->
                   IF i = 0 THEN <<>>
                   ELSE IF s[i] = c THEN g[i - 1] ELSE Append(g[i - 1], s[i])]}
<1>1. 0 \in S
  <2>1. PICK g : g = [i \in 0..0 |-> <<>>]
    OBVIOUS
  <2>2. g = [i \in 0..0 |-> IF i = 0 THEN <<>>
                            ELSE IF s[i] = c THEN g[i - 1] ELSE Append(g[i - 1], s[i])]
    BY <2>1
  <2> QED
    BY <2>2
<1>2. ASSUME NEW k \in Nat, k \in S
      PROVE  k + 1 \in S
  <2>1. PICK g : g = [i \in 0..k |-> IF i = 0 THEN <<>>
                                     ELSE IF s[i] = c THEN g[i - 1] ELSE Append(g[i - 1], s[i])]
    BY <1>2
  <2>2. PICK h : h = [i \in 0..(k + 1) |-> IF i <= k THEN g[i]
                                     ELSE IF s[i] = c THEN g[i - 1] ELSE Append(g[i - 1], s[i])]
    OBVIOUS
  <2>3. \A i \in 0..(k + 1) :
          h[i] = IF i = 0 THEN <<>>
                 ELSE IF s[i] = c THEN h[i - 1] ELSE Append(h[i - 1], s[i])
    <3> SUFFICES ASSUME NEW i \in 0..(k + 1)
                 PROVE  h[i] = IF i = 0 THEN <<>>
                               ELSE IF s[i] = c THEN h[i - 1] ELSE Append(h[i - 1], s[i])
      OBVIOUS
    <3>1. i # 0 => i - 1 \in 0..k /\ h[i - 1] = g[i - 1]
      BY <2>2
    <3>2. i <= k => i \in 0..k /\ h[i] = g[i]
      BY <2>2
    <3>3. ~ (i <= k) => h[i] = IF s[i] = c THEN g[i - 1] ELSE Append(g[i - 1], s[i])
      BY <2>2
    <3>4. i \in 0..k => g[i] = IF i = 0 THEN <<>>
                               ELSE IF s[i] = c THEN g[i - 1] ELSE Append(g[i - 1], s[i])
      BY <2>1
    <3> QED
      BY <3>1, <3>2, <3>3, <3>4
  <2>4. h = [i \in 0..(k + 1) |-> IF i = 0 THEN <<>>
                                  ELSE IF s[i] = c THEN h[i - 1] ELSE Append(h[i - 1], s[i])]
    BY <2>2, <2>3
  <2> QED
    BY <2>4
<1> HIDE DEF S
<1>3. n \in S
  BY <1>1, <1>2, SetInduction
<1> USE DEF S
<1> QED
  BY <1>3

\* ... and keeps every element but one: "filter", for lists of any length.
LEMMA WithoutLemma ==
  ASSUME NEW S, NEW s \in Seq(S), NEW c
  PROVE  /\ Without(s, c) \in Seq(S) /\ Len(Without(s, c)) <= Len(s)
         /\ Elements(Without(s, c)) = Elements(s) \ {c}
<1> DEFINE n == Len(s)
           g == CHOOSE f : f = [i \in 0..Len(s) |-> IF i = 0 THEN <<>>
                                  ELSE IF s[i] = c THEN f[i - 1] ELSE Append(f[i - 1], s[i])]
<1>1. n \in Nat /\ Without(s, c) = g[n]
  BY DEF Without
<1>2. g = [i \in 0..n |-> IF i = 0 THEN <<>>
                          ELSE IF s[i] = c THEN g[i - 1] ELSE Append(g[i - 1], s[i])]
  <2>1. \E f : IsKept(f, s, c, n)
    BY <1>1, KeptExists
  <2> QED
    BY <2>1, Zenon DEF IsKept
<1> HIDE DEF g
<1> DEFINE P(i) == /\ g[i] \in Seq(S) /\ Len(g[i]) <= i
                   /\ Elements(g[i]) = {s[j] : j \in 1..i} \ {c}
           T == {i \in Nat : i <= n => P(i)}
<1>3. 0 \in T
  <2>1. g[0] = <<>>
    BY <1>1, <1>2
  <2>2. <<>> \in Seq(S) /\ Len(<<>>) = 0 /\ Elements(<<>>) = {} /\ 1..0 = {}
    BY DEF Elements
  <2>3. {s[j] : j \in 1..0} = {}
    BY <2>2
  <2>4. P(0)
    BY <2>1, <2>2, <2>3
  <2> QED
    BY <2>4
<1>4. ASSUME NEW i \in Nat, i \in T
      PROVE  i + 1 \in T
  <2> SUFFICES ASSUME i + 1 <= n
               PROVE  P(i + 1)
    OBVIOUS
  <2>1. P(i) /\ i + 1 \in 0..n /\ i + 1 # 0 /\ (i + 1) - 1 = i /\ i + 1 \in 1..n
    BY <1>1, <1>4
  <2>2. g[i + 1] = IF s[i + 1] = c THEN g[i] ELSE Append(g[i], s[i + 1])
    BY <1>2, <2>1
  <2>3. s[i + 1] \in S
    BY <2>1
  <2>4. {s[j] : j \in 1..(i + 1)} = {s[j] : j \in 1..i} \cup {s[i + 1]}
    <3>1. 1..(i + 1) = 1..i \cup {i + 1}
      OBVIOUS
    <3> QED
      BY <3>1
  <2>5. CASE s[i + 1] = c
    BY <2>1, <2>2, <2>4, <2>5
  <2>6. CASE s[i + 1] # c
    <3>1. g[i + 1] = Append(g[i], s[i + 1])
      BY <2>2, <2>6
    <3>2. g[i + 1] \in Seq(S) /\ Len(g[i + 1]) = Len(g[i]) + 1
      BY <2>1, <2>3, <3>1
    <3>3. Elements(g[i + 1]) = Elements(g[i]) \cup {s[i + 1]}
      <4> DEFINE m == Len(g[i])
      <4>1. /\ m \in Nat /\ DOMAIN g[i] = 1..m /\ DOMAIN g[i + 1] = 1..(m + 1)
            /\ \A j \in 1..m : g[i + 1][j] = g[i][j]
            /\ g[i + 1][m + 1] = s[i + 1]
        BY <2>1, <2>3, <3>1, <3>2
      <4> HIDE DEF m
      <4>2. 1..(m + 1) = 1..m \cup {m + 1}
        BY <4>1
      <4> QED
        BY <4>1, <4>2 DEF Elements
    <3> QED
      BY <2>1, <2>4, <2>6, <3>2, <3>3
  <2> QED
    BY <2>5, <2>6
<1> HIDE DEF T
<1>5. n \in T
  BY <1>1, <1>3, <1>4, SetInduction
<1> USE DEF T
<1>6. P(n)
  BY <1>1, <1>5
<1>7. Elements(s) = {s[j] : j \in 1..n}
  BY <1>1 DEF Elements
<1> QED
  BY <1>1, <1>6, <1>7

\* A link added to a list is in it, and pushes others out only when the list is full.
LEMMA AddedLemma ==
  ASSUME NEW s \in Seq(Codes), Len(s) <= MaxLinks, NEW c \in Codes
  PROVE  LET t == Take(<<c>> \o Without(s, c), MaxLinks)
         IN  /\ t \in Seq(Codes) /\ Len(t) <= MaxLinks /\ c \in Elements(t)
             /\ Len(t) = MaxLinks \/ Elements(s) \subseteq Elements(t)
<1> DEFINE f == Without(s, c)
           u == <<c>> \o f
           n == IF Len(u) < MaxLinks THEN Len(u) ELSE MaxLinks
           t == Take(u, MaxLinks)
<1>1. f \in Seq(Codes) /\ Elements(f) = Elements(s) \ {c}
  BY WithoutLemma
<1> HIDE DEF f
<1>2. /\ u \in Seq(Codes) /\ Len(u) = Len(f) + 1 /\ u[1] = c
      /\ \A i \in 1..Len(f) : u[i + 1] = f[i]
  BY <1>1
<1>3. \A x \in Elements(s) : \E i \in 1..Len(u) : u[i] = x
  <2> SUFFICES ASSUME NEW x \in Elements(s)
               PROVE  \E i \in 1..Len(u) : u[i] = x
    OBVIOUS
  <2>1. CASE x = c
    BY <1>1, <1>2, <2>1
  <2>2. CASE x # c
    <3>1. PICK i \in 1..Len(f) : f[i] = x
      <4>1. DOMAIN f = 1..Len(f) /\ x \in Elements(f)
        BY <1>1, <2>2
      <4> QED
        BY <4>1 DEF Elements
    <3>2. i + 1 \in 1..Len(u) /\ u[i + 1] = x
      BY <1>1, <1>2, <3>1
    <3> QED
      BY <3>2
  <2> QED
    BY <2>1, <2>2
<1> HIDE DEF u
<1>4. n \in 1..Len(u) /\ n <= MaxLinks /\ (n = Len(u) \/ n = MaxLinks)
  BY <1>1, <1>2
<1> HIDE DEF n
<1>5. t \in Seq(Codes) /\ Len(t) = n /\ \A i \in 1..n : t[i] = u[i]
  <2>1. t = SubSeq(u, 1, n)
    BY DEF Take, n
  <2> QED
    BY <1>2, <1>4, <2>1
<1> HIDE DEF t
<1>6. DOMAIN t = 1..n
  BY <1>5
<1>7. c \in Elements(t)
  <2>1. 1 \in 1..n /\ t[1] = c
    BY <1>2, <1>4, <1>5
  <2> QED
    BY <1>6, <2>1 DEF Elements
<1>8. n = Len(u) => Elements(s) \subseteq Elements(t)
  BY <1>3, <1>5, <1>6 DEF Elements
<1>9. /\ t \in Seq(Codes) /\ Len(t) <= MaxLinks /\ c \in Elements(t)
      /\ Len(t) = MaxLinks \/ Elements(s) \subseteq Elements(t)
  BY <1>4, <1>5, <1>7, <1>8
<1> QED
  BY <1>9 DEF t, u, f

ListType ==
  /\ recent \in [Windows -> Seq(Codes)] /\ \A w \in Windows : Len(recent[w]) <= MaxLinks
  /\ stored \in Seq(Codes) /\ Len(stored) <= MaxLinks
  /\ stale \subseteq Windows /\ removed \subseteq Codes
  /\ dismissed \in BOOLEAN /\ qrRaced \in BOOLEAN

UpToDate == \A w \in Windows \ stale : recent[w] = stored

ListInv == ListType /\ UpToDate /\ ResultIsRemembered

\* What NoSilentLoss says of a step
KeepsLinks ==
  \A c \in Elements(stored) \ Elements(stored') :
    \/ c \in removed'
    \/ Len(stored') = MaxLinks
    \/ \E w \in stale : stored' = recent'[w]

\* The lists types and the history after a window saved a list
LEMMA SaveList ==
  ASSUME ListInv, NEW w \in Windows, NEW list \in Seq(Codes), Len(list) <= MaxLinks,
         Save(w, list), removed' \in SUBSET Codes,
         dismissed' \in BOOLEAN, qrRaced' \in BOOLEAN,
         \/ Elements(recent[w]) \subseteq Elements(list) \cup removed'
         \/ Len(list) = MaxLinks
  PROVE  ListType' /\ UpToDate' /\ KeepsLinks /\ recent'[w] = list
         /\ \A v \in Windows \ {w} : recent'[v] = recent[v]
<1>1. /\ recent' = [recent EXCEPT ![w] = list] /\ stored' = list
      /\ stale' = stale \cup (Windows \ {w})
      /\ recent \in [Windows -> Seq(Codes)] /\ stale \subseteq Windows
  BY DEF Save, ListInv, ListType
<1>2. ListType'
  BY <1>1 DEF ListInv, ListType
<1>3. UpToDate'
  BY <1>1 DEF ListInv, UpToDate
<1>4. KeepsLinks
  <2>1. CASE w \in stale
    BY <1>1, <2>1 DEF KeepsLinks
  <2>2. CASE w \notin stale
    <3>1. recent[w] = stored
      BY <2>2 DEF ListInv, UpToDate
    <3> QED
      BY <1>1, <3>1 DEF KeepsLinks
  <2> QED
    BY <2>1, <2>2
<1> QED
  BY <1>1, <1>2, <1>3, <1>4

\* The result shown stays where it was: in the list, or among the links removed.
LEMMA ResultStays ==
  ASSUME ListInv,
         ResultShown' => ResultShown /\ shorten'.result = shorten.result,
         Elements(recent[Here]) \cup removed \subseteq (Elements(recent[Here]) \cup removed)'
  PROVE  ResultIsRemembered'
BY DEF ListInv, ResultIsRemembered

\* A step that leaves the lists alone
LEMMA ListsStay ==
  ASSUME ListInv, UNCHANGED lists, dismissed' \in BOOLEAN, qrRaced' \in BOOLEAN,
         ResultShown' => ResultShown /\ shorten'.result = shorten.result
  PROVE  ListInv' /\ KeepsLinks
<1>1. ListType' /\ UpToDate' /\ KeepsLinks
  BY DEF ListInv, ListType, UpToDate, KeepsLinks, lists
<1>2. ResultIsRemembered'
  BY ResultStays DEF lists
<1> QED
  BY <1>1, <1>2 DEF ListInv

LEMMA ListStep ==
  ASSUME Inv, ListInv, [Next]_vars
  PROVE  ListInv' /\ KeepsLinks
<1> USE DEF ui, requests, prompt
<1>0. /\ PageType /\ SentFromHere /\ shorten \in Shorten /\ Here \in Windows
      /\ ListType /\ UpToDate /\ ResultIsRemembered
      /\ recent \in [Windows -> Seq(Codes)] /\ removed \in SUBSET Codes
      /\ dismissed \in BOOLEAN /\ qrRaced \in BOOLEAN
  BY DEF Inv, PageType, ListInv, ListType
\* Steps of the page that do not show another result
<1>1. ASSUME UNCHANGED lists, dismissed' \in BOOLEAN, qrRaced' \in BOOLEAN,
             view' = view,
             shorten'.result \in {shorten.result, None}
      PROVE  ListInv' /\ KeepsLinks
  <2>1. ResultShown' => ResultShown /\ shorten'.result = shorten.result
    BY <1>1 DEF ResultShown
  <2> QED
    BY <1>1, <2>1, ListsStay
<1>2. CASE UNCHANGED vars \/ PreviewAsks \/ (\E u \in Urls, title \in BOOLEAN : PreviewAnswered(u, title))
           \/ (\E c \in Codes : OrphanAnswered(c)) \/ GenerateQr \/ GenerateNew
           \/ (\E u \in Urls, ok \in BOOLEAN : GenAnswered(u, ok))
           \/ (\E u \in Urls : Detect(u)) \/ PromptUnheard \/ PromptDismissed
  <2>1. /\ UNCHANGED lists /\ view' = view /\ shorten' = shorten
        /\ dismissed' \in BOOLEAN /\ qrRaced' = qrRaced
    BY <1>0, <1>2 DEF vars, PreviewAsks, PreviewAnswered, OrphanAnswered, GenerateQr, GenerateNew,
                      GenAnswered, Detect, PromptUnheard, PromptDismissed
  <2> QED
    BY <1>0, <1>1, <2>1
<1>3. ASSUME NEW u \in Urls \cup {None}, Type(u)
      PROVE  ListInv' /\ KeepsLinks
  <2>1. /\ UNCHANGED <<view, lists, dismissed, qrRaced>>
        /\ shorten' = shorten \/ shorten' = [shorten EXCEPT !.url = u]
    BY <1>3 DEF Type
  <2>2. shorten'.result = shorten.result
    BY <1>0, <2>1 DEF Shorten
  <2> QED
    BY <1>0, <1>1, <2>1, <2>2
<1>4. ASSUME NEW c \in Codes, Submit(c) \/ PostFails(c) \/ PromptShortens(c)
      PROVE  ListInv' /\ KeepsLinks
  <2>1. /\ UNCHANGED <<view, lists, dismissed>>
        /\ qrRaced' = qrRaced \/ qrRaced' = (qrRaced \/ shorten.qr # None \/ qrAsked # {})
        /\ \/ shorten' = [shorten EXCEPT !.isLoading = FALSE]
           \/ \E u : shorten' = [shorten EXCEPT !.url = u, !.result = None, !.isLoading = TRUE]
    BY <1>4 DEF Submit, PostFails, PromptShortens, Send
  <2>2. shorten'.result \in {shorten.result, None}
    BY <1>0, <2>1 DEF Shorten
  <2> QED
    BY <1>0, <1>1, <2>1, <2>2
<1>5. CASE Reset \/ HideQr \/ ShowQr \/ \E c \in Codes, ok \in BOOLEAN : QrAnswered(c, ok)
  <2>1. /\ UNCHANGED <<view, lists, dismissed>>
        /\ qrRaced' = qrRaced \/ qrRaced' = (qrRaced \/ qrAsked # {})
        /\ \/ shorten' = [shorten EXCEPT !.url = None, !.result = None, !.qr = None, !.qrLoading = FALSE]
           \/ shorten' = [shorten EXCEPT !.qr = None]
           \/ shorten' = [shorten EXCEPT !.qrLoading = TRUE]
           \/ \E q : shorten' = [shorten EXCEPT !.qr = q, !.qrLoading = FALSE]
    BY <1>5 DEF Reset, HideQr, ShowQr, QrAnswered
  <2>2. shorten'.result \in {shorten.result, None}
    BY <1>0, <2>1 DEF Shorten
  <2> QED
    BY <1>0, <1>1, <2>1, <2>2
<1>6. CASE PromptPastes
  <2>1. /\ UNCHANGED <<view, lists, dismissed, qrRaced>>
        /\ shorten' = shorten \/ shorten' = [shorten EXCEPT !.url = detectedUrl]
    BY <1>6 DEF PromptPastes
  <2>2. shorten'.result = shorten.result
    BY <1>0, <2>1 DEF Shorten
  <2> QED
    BY <1>0, <1>1, <2>1, <2>2
\* The tabs: the one that opens shows no result.
<1>7. CASE OpenQr
  <2>1. UNCHANGED <<lists, dismissed, qrRaced>> /\ ~ ResultShown'
    BY <1>7 DEF OpenQr, ResultShown
  <2> QED
    BY <1>0, <2>1, ListsStay
<1>8. CASE OpenShorten
  <2>1. /\ recent' = [recent EXCEPT ![Here] = stored] /\ stale' = stale \ {Here}
        /\ UNCHANGED <<stored, removed, dismissed, qrRaced>>
        /\ shorten' = [NewShorten EXCEPT !.url = initialUrl]
    BY <1>8 DEF OpenShorten, LoadLinks
  <2>2. shorten'.result = None
    BY <2>1 DEF NewShorten
  <2>3. ListType'
    BY <1>0, <2>1 DEF ListType
  <2>4. UpToDate'
    BY <1>0, <2>1 DEF UpToDate
  <2> QED
    BY <2>1, <2>2, <2>3, <2>4 DEF ListInv, ResultIsRemembered, ResultShown, KeepsLinks
\* The steps that write a list
<1>9. ASSUME NEW c \in Codes, PostAnswered(c)
      PROVE  ListInv' /\ KeepsLinks
  <2> DEFINE list == Take(<<c>> \o Without(recent[Here], c), MaxLinks)
  <2>1. /\ Save(Here, list) /\ UNCHANGED <<removed, dismissed>>
        /\ shorten' = [shorten EXCEPT !.result = c, !.isLoading = FALSE]
        /\ qrRaced' \in BOOLEAN
    BY <1>0, <1>9 DEF PostAnswered, AddLink
  <2>2. /\ list \in Seq(Codes) /\ Len(list) <= MaxLinks /\ c \in Elements(list)
        /\ Len(list) = MaxLinks \/ Elements(recent[Here]) \subseteq Elements(list)
    BY <1>0, AddedLemma DEF ListType
  <2> HIDE DEF list
  <2>3. ListType' /\ UpToDate' /\ KeepsLinks /\ recent'[Here] = list
    BY <1>0, <2>1, <2>2, SaveList
  <2>4. shorten'.result = c
    BY <1>0, <2>1 DEF Shorten
  <2> QED
    BY <2>2, <2>3, <2>4 DEF ListInv, ResultIsRemembered
<1>10. ASSUME NEW w \in Windows, NEW c \in Codes, AddElsewhere(w, c)
       PROVE  ListInv' /\ KeepsLinks
  <2> DEFINE list == Take(<<c>> \o Without(recent[w], c), MaxLinks)
  <2>1. /\ Save(w, list) /\ UNCHANGED <<ui, removed, dismissed, qrRaced>> /\ w # Here
    BY <1>10 DEF AddElsewhere, AddLink
  <2>2. /\ list \in Seq(Codes) /\ Len(list) <= MaxLinks
        /\ Len(list) = MaxLinks \/ Elements(recent[w]) \subseteq Elements(list)
    BY <1>0, AddedLemma DEF ListType
  <2> HIDE DEF list
  <2>3. ListType' /\ UpToDate' /\ KeepsLinks /\ recent'[Here] = recent[Here]
    BY <1>0, <2>1, <2>2, SaveList
  <2>4. ResultIsRemembered'
    BY <2>1, <2>3, ResultStays DEF ResultShown
  <2> QED
    BY <2>3, <2>4 DEF ListInv
<1>11. ASSUME NEW w \in Windows, NEW c \in Codes, RemoveLink(w, c)
       PROVE  ListInv' /\ KeepsLinks
  <2> DEFINE list == Without(recent[w], c)
  <2>1. /\ Save(w, list) /\ UNCHANGED <<ui, dismissed, qrRaced>> /\ removed' = removed \cup {c}
    BY <1>11 DEF RemoveLink
  <2>2. /\ list \in Seq(Codes) /\ Len(list) <= MaxLinks
        /\ Elements(list) = Elements(recent[w]) \ {c}
    <3>1. /\ recent[w] \in Seq(Codes) /\ Len(recent[w]) <= MaxLinks
          /\ list \in Seq(Codes) /\ Len(list) <= Len(recent[w])
          /\ Elements(list) = Elements(recent[w]) \ {c}
      BY <1>0, WithoutLemma DEF ListType
    <3> HIDE DEF list
    <3> QED
      BY <3>1
  <2> HIDE DEF list
  <2>3. /\ ListType' /\ UpToDate' /\ KeepsLinks /\ recent'[w] = list
        /\ \A v \in Windows \ {w} : recent'[v] = recent[v]
    <3>1. Elements(recent[w]) \subseteq Elements(list) \cup removed' /\ removed' \in SUBSET Codes
      BY <1>0, <2>1, <2>2
    <3> QED
      BY <1>0, <2>1, <2>2, <3>1, SaveList
  <2>4. Elements(recent[Here]) \cup removed \subseteq (Elements(recent[Here]) \cup removed)'
    <3>1. Elements(recent[Here]) \subseteq Elements(recent'[Here]) \cup {c}
      BY <1>0, <2>2, <2>3
    <3> QED
      BY <2>1, <3>1
  <2>5. ResultIsRemembered'
    BY <2>1, <2>4, ResultStays DEF ResultShown
  <2> QED
    BY <2>3, <2>5 DEF ListInv
<1>12. ASSUME NEW w \in Windows, Toggle(w)
       PROVE  ListInv' /\ KeepsLinks
  <2>1. Save(w, recent[w]) /\ UNCHANGED <<ui, removed, dismissed, qrRaced>>
    BY <1>12 DEF Toggle
  <2>2. /\ ListType' /\ UpToDate' /\ KeepsLinks /\ recent'[Here] = recent[Here]
    <3>1. recent[w] \in Seq(Codes) /\ Len(recent[w]) <= MaxLinks
      BY <1>0 DEF ListType
    <3> QED
      BY <1>0, <2>1, <3>1, SaveList
  <2>3. ResultIsRemembered'
    BY <2>1, <2>2, ResultStays DEF ResultShown
  <2> QED
    BY <2>2, <2>3 DEF ListInv
<1>13. ASSUME NEW w \in Windows, Reopen(w)
       PROVE  ListInv' /\ KeepsLinks
  <2>1. /\ recent' = [recent EXCEPT ![w] = stored] /\ stale' = stale \ {w} /\ w # Here
        /\ UNCHANGED <<ui, stored, removed, dismissed, qrRaced>>
    BY <1>13 DEF Reopen
  <2>2. ListType'
    BY <1>0, <2>1 DEF ListType
  <2>3. UpToDate' /\ recent'[Here] = recent[Here]
    BY <1>0, <2>1 DEF UpToDate
  <2>4. ResultIsRemembered'
    BY <2>1, <2>3, ResultStays DEF ResultShown
  <2> QED
    BY <2>1, <2>2, <2>3, <2>4 DEF ListInv, KeepsLinks
<1> QED
  BY <1>2, <1>3, <1>4, <1>5, <1>6, <1>7, <1>8, <1>9, <1>10, <1>11, <1>12, <1>13 DEF Next

LEMMA ListInit == Init => ListInv
<1> SUFFICES ASSUME Init PROVE ListInv
  OBVIOUS
<1>1. <<>> \in Seq(Codes) /\ Len(<<>>) = 0
  OBVIOUS
<1>2. ListType
  <2>1. recent \in [Windows -> Seq(Codes)] /\ \A w \in Windows : recent[w] = <<>>
    BY <1>1 DEF Init
  <2>2. stored = <<>> /\ stale = {} /\ removed = {} /\ dismissed \in BOOLEAN /\ qrRaced = FALSE
    BY DEF Init
  <2>3. \A w \in Windows : Len(recent[w]) <= MaxLinks
    BY <1>1, <2>1
  <2>4. stored \in Seq(Codes) /\ Len(stored) <= MaxLinks
    BY <1>1, <2>2
  <2>5. stale \subseteq Windows /\ removed \subseteq Codes /\ dismissed \in BOOLEAN /\ qrRaced \in BOOLEAN
    BY <2>2
  <2> QED
    BY <2>1, <2>3, <2>4, <2>5 DEF ListType
<1>3. UpToDate /\ ResultIsRemembered
  BY DEF Init, UpToDate, ResultIsRemembered, ResultShown, NewShorten
<1> QED
  BY <1>2, <1>3 DEF ListInv

\* The sequences of a bounded length, as TLC enumerates them
LEMMA BoundedLemma ==
  ASSUME NEW S, NEW n \in Nat, NEW s \in Seq(S), Len(s) <= n
  PROVE  s \in BoundedSeq(S, n)
<1>1. Len(s) \in 0..n /\ s \in [1..Len(s) -> S]
  OBVIOUS
<1> QED
  BY <1>1 DEF BoundedSeq

\* The page, its requests and the lists keep their types: no order of answers sends an
\* empty field or leaves a list longer than MAX_LINKS (useRecentLinks.ts:46).
THEOREM TypeCorrect == Spec => []TypeOK
<1>1. Inv /\ ListInv => TypeOK
  <2> SUFFICES ASSUME Inv, ListInv PROVE TypeOK
    OBVIOUS
  <2>1. recent \in [Windows -> BoundedSeq(Codes, MaxLinks)] /\ stored \in BoundedSeq(Codes, MaxLinks)
    BY BoundedLemma DEF ListInv, ListType
  <2> QED
    BY <2>1 DEF Inv, PageType, ListInv, ListType, TypeOK
<1> QED
  BY <1>1, InitInv, NextInv, ListInit, ListStep, PTL DEF Spec

\* A link shown as the result is in the list of recent links, unless the user removed it
\* there, whatever other windows write (LiveShortener.tsx:85 and :151).
THEOREM ResultAlwaysRemembered == Spec => []ResultIsRemembered
<1>1. ListInv => ResultIsRemembered
  BY DEF ListInv
<1> QED
  BY <1>1, InitInv, NextInv, ListInit, ListStep, PTL DEF Spec

\* No step of any window takes a link from localStorage but by removing it, by filling the
\* list, or by writing a list that missed a write of another window
\* (useRecentLinks.ts:38, :52, :60 and :70).
THEOREM NeverSilentLoss == Spec => NoSilentLoss
<1>1. Inv /\ ListInv /\ [Next]_vars => [KeepsLinks]_vars
  BY ListStep
<1> QED
  BY <1>1, InitInv, NextInv, ListInit, ListStep, PTL DEF Spec, NoSilentLoss, KeepsLinks
=============================================================================
