------------------------------- MODULE Pricing -------------------------------
(***************************************************************************)
(* pricing.rs: what a request costs, from the usage that the upstream told *)
(* and the price that was current when it was dispatched.  Either may be   *)
(* incomplete: None stands for a number that nobody gave.  Decimals are    *)
(* integers here, and a rate is per token.                                 *)
(*                                                                         *)
(* An "answer" is what the decoders found: the totals of the model, one    *)
(* entry of "images" for each image (None: it came without usage) and the  *)
(* service tier.  A standalone Images answer has one entry for all of its  *)
(* images, and its totals include the tokens of the images.                *)
(***************************************************************************)
EXTENDS Integers, Sequences, FiniteSetsExt

CONSTANT None

Sides == {"input", "output"}

Standalone(answer) == answer.source = "images"

\* observe_item adds up what the images told.
ImageTokens(answer, side) ==
  LET told == {i \in DOMAIN answer.images :
                 answer.images[i] # None /\ answer.images[i][side] # None}
  IN IF told = {} THEN None
     ELSE MapThenSumSet(LAMBDA i : answer.images[i][side], told)

ImageCount(answer) == IF Standalone(answer) THEN answer.count ELSE Len(answer.images)

ImagesReported(answer) == \E i \in DOMAIN answer.images : answer.images[i] # None

Counted(answer) ==
  \A side \in Sides :
    /\ answer[side] # None
    /\ Standalone(answer) => ImageTokens(answer, side) # None

\* MUTANT: the images of a standalone answer are charged as text too.
WholeTotal(answer, side) == answer[side]

\* The tokens of text among the totals.
TextTokens(answer, side) ==
  IF Standalone(answer) THEN answer[side] - ImageTokens(answer, side) ELSE answer[side]

Tier(answer) == answer.tier
Factor(answer, price) == IF Tier(answer) = "fast" THEN price.fast ELSE 1

\* Without a number of cached tokens the sum is known only if it makes no
\* difference.
CacheMatters(answer, price) ==
  TextTokens(answer, "input") # 0 /\ price.input # price.cached

Cached(answer) == IF answer.cached = None THEN 0 ELSE answer.cached

\* What keeps a request from having a price, in the order of the checks.
Obstacle(answer, requested, price) ==
  IF ~Counted(answer) THEN "usage_unknown"
  ELSE IF \E side \in Sides : TextTokens(answer, side) < 0 THEN "invalid_usage"
  ELSE IF price = None THEN "unpriced"
  ELSE IF Tier(answer) = None /\ requested = "fast" THEN "tier_unknown"
  ELSE IF Tier(answer) = "fast" /\ price.fast = None THEN "unpriced_fast"
  ELSE IF answer.cached = None /\ CacheMatters(answer, price) THEN "cache_usage_unknown"
  ELSE IF \/ Cached(answer) > TextTokens(answer, "input")
          \/ answer.reasoning # None /\ answer.reasoning > TextTokens(answer, "output")
       THEN "invalid_usage"
  ELSE None

Line(kind, quantity, rate) == [kind |-> kind, quantity |-> quantity, rate |-> rate]

TextLines(answer, price) ==
  { Line("input", TextTokens(answer, "input") - Cached(answer), price.input),
    Line("cached_input", Cached(answer), price.cached),
    Line("output", TextTokens(answer, "output"), price.output) }

\* A rate of the images' tokens, by its side.
ImageRate(price, side) == IF side = "input" THEN price.image_input ELSE price.image_output

\* The images have a price of their own, or tokens with a rate for each.
ImagesPriced(answer, price) ==
  \/ ImageCount(answer) = 0
  \/ price.per_image # None
  \/ /\ ImagesReported(answer)
     /\ \A side \in Sides :
          /\ ImageTokens(answer, side) # None
          /\ ImageTokens(answer, side) = 0 \/ ImageRate(price, side) # None

ImageLines(answer, price) ==
  IF ImageCount(answer) = 0 THEN {}
  ELSE IF price.per_image # None THEN {Line("image", ImageCount(answer), price.per_image)}
  ELSE { Line("image_" \o side, ImageTokens(answer, side), ImageRate(price, side)) :
           side \in {s \in Sides : ImageTokens(answer, s) # None /\ ImageRate(price, s) # None} }

Sum(lines, factor) == MapThenSumSet(LAMBDA line : line.quantity * line.rate * factor, lines)

\* value_usage
Value(answer, requested, price) ==
  LET obstacle == Obstacle(answer, requested, price)
      lines == TextLines(answer, price) \cup ImageLines(answer, price)
  IN
  IF obstacle # None THEN [status |-> obstacle, cny |-> None]
  ELSE IF ~ImagesPriced(answer, price) THEN [status |-> "image_unpriced", cny |-> None]
  ELSE [status |-> IF answer.complete THEN "priced" ELSE "partial",
        cny |-> Sum(lines, Factor(answer, price))]

\* value_search
SearchValue(calls, rate) ==
  IF calls = 0 THEN [status |-> "not_charged", cny |-> 0]
  ELSE IF rate = None THEN [status |-> "unpriced_search", cny |-> None]
  ELSE [status |-> "priced", cny |-> calls * rate]

\* finalize: a request that was never sent costs nothing.
NotExecuted == [status |-> "not_executed", cny |-> 0]

-----------------------------------------------------------------------------
(* What a request should cost when everything is told: each token once.    *)

Amount == 0..2

Or(x, values) == IF x = None THEN values ELSE {x}

\* What the upstream may have left out.
Told(answer) ==
  { a \in { [answer EXCEPT !.cached = c, !.images = i] :
              c \in Or(answer.cached, Amount),
              i \in [DOMAIN answer.images -> [Sides -> Amount]] } :
      /\ a.cached <= TextTokens(a, "input")
      /\ \A side \in Sides : TextTokens(a, side) >= 0
      /\ \A i \in DOMAIN a.images : answer.images[i] # None =>
           \A side \in Sides : a.images[i][side] \in Or(answer.images[i][side], Amount) }

\* Prices that nobody entered.
Entered(price) ==
  { [price EXCEPT !.image_input = i, !.image_output = o] :
      i \in Or(price.image_input, {0, 1}), o \in Or(price.image_output, {0, 1}) }

Due(answer, price) ==
  (IF answer.tier = "fast" THEN price.fast ELSE 1) *
    ( answer.cached * price.cached
      + (answer.input - answer.cached) * price.input
      + answer.output * price.output
      + (IF ImageCount(answer) = 0 THEN 0
         ELSE IF price.per_image # None THEN ImageCount(answer) * price.per_image
         ELSE ImageTokens(answer, "input") * price.image_input
              + ImageTokens(answer, "output") * price.image_output)
      - (IF Standalone(answer)
         THEN ImageTokens(answer, "input") * price.input
              + ImageTokens(answer, "output") * price.output
         ELSE 0) )

\* Some images of the answer came with usage and others without: value_usage
\* cannot tell, as only the sum of the reported tokens is kept.
PartlyReported(answer) ==
  /\ \E i, j \in DOMAIN answer.images, side \in Sides :
       /\ answer.images[i] # None /\ answer.images[i][side] # None
       /\ answer.images[j] = None \/ answer.images[j][side] = None

\* pricing.rs: a request has a sum only if nothing that was left out, neither
\* usage nor a price, could change it; and then each token is charged once.
OnlyKnownSums(answer, requested, price) ==
  LET value == Value(answer, requested, price) IN
  value.cny # None /\ ~PartlyReported(answer) =>
    /\ value.status \in {"priced", "partial"}
    /\ \A a \in Told(answer), p \in Entered(price) : value.cny = Due(a, p)
=============================================================================
