--------------------------- MODULE SessionPreview ---------------------------
(***************************************************************************)
(* The preview of a session's card: a muted <video> that takes its source  *)
(* when the card scrolls into view and plays while the pointer is over it. *)
(* The element is put away while the stream is not playable yet and while  *)
(* the player with controls is open, and a new one is made afterwards.     *)
(* What a media element does with a call to play before it has a frame is  *)
(* the browser's business: it may start later or stay paused.              *)
(***************************************************************************)
EXTENDS Naturals

CONSTANTS
    Urls,        \* the addresses a session may publish
    NoUrl,
    MaxMounts,   \* bound: elements made
    MaxMoves     \* bound: what the person and the run do to the card

VARIABLES
    card,        \* what the card is given, and what the person does to it
    video,       \* every element made so far
    mounted,     \* the number of the element on the page, 0 for none
    made,        \* how many have been made
    cardBudget

previewVars == <<card, video, mounted, made, cardBudget>>

Elements == 1..MaxMounts
NoElement == [src |-> NoUrl, ready |-> FALSE, playing |-> FALSE, listens |-> FALSE, active |-> FALSE]
Moves == cardBudget > 0 /\ cardBudget' = cardBudget - 1

Active(c) == c.hovering \/ c.locked
\* The element is on the page only when neither the wait nor the player is.
Shows(c) == ~c.starting /\ ~(c.expanded /\ c.page)
Source(c) == IF c.visible THEN c.url ELSE NoUrl

PreviewInit ==
    /\ card \in [url : {NoUrl} \cup Urls, page : BOOLEAN, starting : BOOLEAN, visible : {FALSE},
                 hovering : {FALSE}, locked : {FALSE}, expanded : {FALSE}, reduced : BOOLEAN]
    /\ video = [e \in Elements |-> NoElement]
    /\ mounted = (IF Shows(card) THEN 1 ELSE 0) /\ made = mounted
    /\ cardBudget = MaxMoves

\* Called before the first frame, play may be refused.
MayStart(element) == {[element EXCEPT !.playing = TRUE]} \cup IF element.ready THEN {} ELSE {element}
\* The element takes the address and waits to hear that it can play.
Attach(element, url) == {[element EXCEPT !.src = url, !.ready = FALSE, !.playing = FALSE, !.listens = TRUE]}
\* Mutant: an element that is put away is left as it is.
LetGo(element) == element
\* The player is destroyed, the element paused and emptied.
Detach(element) == [element EXCEPT !.src = NoUrl, !.ready = FALSE, !.playing = FALSE, !.listens = FALSE]

\* The effects of a render, in order: who is active, the source, playing.
WithSource(element, url) ==
    IF element.src = url THEN {element}
    ELSE IF url = NoUrl THEN {Detach(element)} ELSE Attach(Detach(element), url)
WithPlaying(before, element, active) ==
    IF element.src = NoUrl \/ (element.src = before.src /\ before.active = active) THEN {[element EXCEPT !.active = active]}
    ELSE IF active /\ ~card.reduced THEN MayStart([element EXCEPT !.active = TRUE])
    ELSE {[element EXCEPT !.active = active, !.playing = FALSE]}
Rendered(element, c) == UNION {WithPlaying(element, e, Active(c)) : e \in WithSource(element, Source(c))}
Renders(c) ==
    /\ card' = c
    /\ IF Shows(c)
       THEN LET e == IF mounted = 0 THEN made + 1 ELSE mounted
            IN /\ e <= MaxMounts /\ mounted' = e /\ made' = (IF mounted = 0 THEN made + 1 ELSE made)
               /\ \E element \in Rendered(video[e], c) : video' = [video EXCEPT ![e] = element]
       ELSE /\ mounted' = 0 /\ UNCHANGED made
            /\ video' = IF mounted = 0 THEN video ELSE [video EXCEPT ![mounted] = Detach(@)]

\* ---- the card ----
ScrollsIntoView ==
    /\ ~card.visible /\ Renders([card EXCEPT !.visible = TRUE]) /\ UNCHANGED cardBudget
Enter == ~card.hovering /\ Moves /\ Renders([card EXCEPT !.hovering = TRUE])
\* The pointer leaves the preview, which ends a preview that was asked for, and the card.
Leave == card.hovering /\ Moves /\ Renders([card EXCEPT !.hovering = FALSE, !.locked = FALSE])
PressPlay ==
    /\ Shows(card) /\ (card.url # NoUrl \/ card.page) /\ Moves
    /\ Renders(IF card.page THEN [card EXCEPT !.expanded = TRUE] ELSE [card EXCEPT !.locked = TRUE])
ClosePlayer ==
    /\ ~card.starting /\ card.expanded /\ card.page /\ Moves /\ Renders([card EXCEPT !.expanded = FALSE])
\* The run is tried again, becomes playable, or publishes another address.
GateMoves == Moves /\ Renders([card EXCEPT !.starting = ~@])
UrlsChange == Moves /\ \E url \in ({NoUrl} \cup Urls) \ {card.url}, page \in BOOLEAN : Renders([card EXCEPT !.url = url, !.page = page])

\* ---- the browser ----
\* The manifest is parsed, or enough of a file is there: who listens is told once.
BecomesReady(e) ==
    /\ video[e].src # NoUrl /\ ~video[e].ready
    /\ video' = [video EXCEPT ![e] =
                    [@ EXCEPT !.ready = TRUE, !.listens = FALSE,
                              !.playing = video[e].playing \/ (video[e].listens /\ video[e].active /\ ~card.reduced)]]
    /\ UNCHANGED <<card, mounted, made, cardBudget>>

PreviewNext ==
    \/ ScrollsIntoView \/ Enter \/ Leave \/ PressPlay \/ ClosePlayer \/ GateMoves \/ UrlsChange
    \/ \E e \in Elements : BecomesReady(e)
PreviewSpec == PreviewInit /\ [][PreviewNext]_previewVars

(***************************************************************************)
(* Properties.                                                             *)
(***************************************************************************)
\* Every variable keeps its type.
PreviewTypeOK ==
    /\ card.url \in Urls \cup {NoUrl} /\ mounted \in 0..made /\ made \in 0..MaxMounts
    /\ \A e \in Elements : video[e].src \in Urls \cup {NoUrl}

\* Only the element on the page plays, the address the card shows, while it is
\* hovered or locked, and never for a person who asked for reduced motion.
PlaysWhatIsWatched ==
    \A e \in Elements : video[e].playing => e = mounted /\ Active(card) /\ video[e].src = card.url /\ ~card.reduced

\* A hovered card plays as soon as its video can, whatever came before; playing
\* blindly once attached "is what used to leave hovered cards stuck"
\* (SessionPreview).
Watched == mounted # 0 /\ (card.hovering \/ card.locked) /\ card.visible /\ card.url # NoUrl /\ ~card.reduced
NoCardStuck == Watched /\ video[mounted].ready => video[mounted].playing
=============================================================================
