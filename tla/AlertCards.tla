------------------------------ MODULE AlertCards ------------------------------
(***************************************************************************)
(* The cards that the alert forwarder posts to Feishu: what _dispatch_group *)
(* and the format_* functions of app.py put on the card of the chunk that  *)
(* is being sent.  A card is a function of the forwarder's state, so this  *)
(* module adds operators to AlertForward and no variables.                 *)
(*                                                                         *)
(* Of a card it keeps what tells the cards of a group apart or joins them: *)
(* the colour, the count, "part i of n", the number of each alert and the  *)
(* button that silences.  Texts, times and the layout are left out.        *)
(***************************************************************************)
EXTENDS AlertForward

CONSTANTS
    SilenceLinks,   \* whether ALERTMANAGER_SILENCE_BASE_URL is set
    Unnamed         \* "Unknown", the name of alerts without an alertname

ASSUME CardAssumption == SilenceLinks \in BOOLEAN

NameOf(k)   == k[2]
StatusOf(k) == k[3]
IsFiring    == StatusOf(current) = "firing"
Total       == Cardinality(Alerts)

\* len(chunks), of range(0, total, MAX_MERGE_COUNT)
TotalParts == (Total + MAX_MERGE_COUNT - 1) \div MAX_MERGE_COUNT

\* enumerate(chunks, start=1)
PartIndex == start \div MAX_MERGE_COUNT + 1

\* start_index.  (Mutant: as if the parts were counted from 0.)
StartIndexAfter == PartIndex * MAX_MERGE_COUNT
StartIndex      == (PartIndex - 1) * MAX_MERGE_COUNT

\* build_silence_link, build_group_silence_link: no link without the base
\* URL, and none for alerts without a name.  (A group does not tell an alert
\* without a name from one whose name is "Unknown".  build_silence_link does,
\* on the card of a single alert: it gives the latter a link, which is left
\* out here.)
SilenceLink == SilenceLinks /\ NameOf(current) # Unnamed

Button(kind) == IF SilenceLink THEN kind ELSE "none"

\* format_alert_to_feishu and format_resolved_to_feishu: one alert, with no
\* number and no count.
FiringCard ==
    [colour |-> "red", total |-> 1, part |-> 1, parts |-> 1,
     numbers |-> {}, button |-> Button("alert")]

ResolvedCard ==
    [colour |-> "green", total |-> 1, part |-> 1, parts |-> 1,
     numbers |-> {}, button |-> "none"]

\* format_merged_alerts_to_feishu: idx = start_index + offset.
Number(t) == StartIndex + Rank(t, Chunk)

MergedCard ==
    [colour  |-> IF IsFiring THEN "red" ELSE "green",
     total   |-> Total,
     part    |-> PartIndex,
     parts   |-> TotalParts,
     numbers |-> {Number(t) : t \in Chunk},
     button  |-> IF IsFiring THEN Button("group") ELSE "none"]

\* _dispatch_group's choice of the format.
Card == IF Total > 1 THEN MergedCard
        ELSE IF IsFiring THEN FiringCard
        ELSE ResolvedCard

-----------------------------------------------------------------------------

\* What a step may do to the card that is being sent.
Continues ==
    /\ flushPc # "send" /\ flushPc' = "send" /\ Total' > 1 =>
         Card'.part = 1 /\ 1 \in Card'.numbers
    /\ flushPc = "send" /\ flushPc' = "send" =>
         /\ Card'.colour = Card.colour /\ Card'.total = Card.total
         /\ Card'.parts = Card.parts /\ Card'.button = Card.button
         /\ \/ Card' = Card
            \/ /\ Card'.part = Card.part + 1
               /\ \A n \in Card.numbers, m \in Card'.numbers : n < m
               /\ \E n \in Card.numbers : n + 1 \in Card'.numbers
    /\ flushPc = "send" /\ flushPc' = "settle" /\ allOk' /\ Total > 1 =>
         Card.part = Card.parts /\ Card.total \in Card.numbers

\* The cards of a dispatch belong together, whatever handlers append to the
\* buffer and however often a card is posted again in between: the first is
\* part 1 and starts at number 1; each next one is the next part of as many,
\* goes on at the next number and has the same colour, count and button; and a
\* dispatch that succeeds ends with the last part, at the number that is the
\* count.
CardsContinue == [][Continues]_vars
=============================================================================
