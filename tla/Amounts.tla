------------------------------ MODULE Amounts -------------------------------
(***************************************************************************)
(* The amounts of a wallet as the code has them: binary floating point     *)
(* numbers of limited precision, which travel between the nodes as decimal *)
(* text.  Transactions takes them for integers; this module shows for      *)
(* which amounts that is right, and what happens with others.              *)
(*                                                                         *)
(* A number is a whole count of quanta, and a float a significand times a  *)
(* unit.  The code has 2^24 significands (float) and texts of millionths   *)
(* (to_string); its quantum is 2^-149 coins and its units are the powers   *)
(* of two from there on.  Smaller formats of the same kind behave in the   *)
(* same way and fit the integers of TLC.                                   *)
(***************************************************************************)
EXTENDS Integers, Sequences, FiniteSetsExt

CONSTANTS
  Significands,     \* the significands of a float are the numbers below this one
  Units,            \* what one of a significand may stand for, in quanta
  Quanta,           \* how many quanta a coin has
  TextUnits,        \* and how many units of the last digit of a text
  TypedUnits,       \* and how many of the last digit that users type
  COINBASE_AMOUNT,  \* coins, a whole number
  TypedAmounts,     \* what users pay, in units of the last digit they type
  MaxCoins          \* bound on the blocks that the owner mines

ASSUME AmountsAssumption ==
  /\ {Significands, Quanta, TextUnits, TypedUnits, COINBASE_AMOUNT} \subseteq Nat \ {0}
  /\ Units \subseteq Nat \ {0} /\ \A u, v \in Units : u <= v => v % u = 0
  /\ MaxCoins \in Nat /\ TypedAmounts \subseteq Nat \ {0}

VARIABLES
  coins,      \* the unspent outputs of the owner as its own node has them
  peerCoins,  \* the same outputs as the other nodes have them
  mined       \* how many blocks the owner has mined

vars == <<coins, peerCoins, mined>>

-----------------------------------------------------------------------------
(* Numbers *)

\* The whole number nearest to num / den, the even one of two.
Nearest(num, den) ==
  LET q == num \div den
      r == num % den
  IN  IF 2 * r < den \/ (2 * r = den /\ q % 2 = 0) THEN q ELSE q + 1

\* The float nearest to num / den quanta, in the smallest unit that suffices.
float(num, den) ==
  LET unit == Min({u \in Units : num \div den < Significands * u})
  IN  unit * Nearest(num, unit * den)

add(a, b) == float(a + b, 1)
sub(a, b) == float(a - b, 1)

\* The sum of a sequence of floats, from the left.
sum(s) ==
  LET upTo[i \in 0..Len(s)] == IF i = 0 THEN 0 ELSE add(upTo[i - 1], s[i])
  IN  upTo[Len(s)]

\* What the user typed, as GetFloat returns it.
Typed(k) == float(k * Quanta, TypedUnits)

\* Mutation: the text has a digit less.
to_string_Short(a) == 10 * Nearest(a * (TextUnits \div 10), Quanta)

\* The text of a number, as a count of its last digit.
to_string(a) == Nearest(a * TextUnits, Quanta)

\* A number as it comes to another node.
Received(a) == float(to_string(a) * Quanta, TextUnits)

-----------------------------------------------------------------------------
(* Transactions *)

\* How many of the coins getTransOutsForAmount takes: the fewest whose sum
\* suffices, in the order of the list; 0 is its exception.
CoinsFor(amount) ==
  LET Enough == {i \in 1..Len(coins) : sum(SubSeq(coins, 1, i)) >= amount}
  IN  IF Enough = {} THEN 0 ELSE Min(Enough)

\* Mutation: the difference is not returned to the owner.
createTransOuts_NoChange(amount, collected) == <<amount>>

createTransOuts(amount, collected) ==
  LET leftOverAmount == sub(collected, amount)
  IN  IF leftOverAmount = 0 THEN <<amount>> ELSE <<amount, leftOverAmount>>

\* What isValidTransaction requires of the amounts.
AmountsFit(ins, outs) == sum(ins) = sum(outs)

\* The inputs and outputs of a payment at the node of the owner.
Inputs(amount)  == SubSeq(coins, 1, CoinsFor(amount))
Outputs(amount) == createTransOuts(amount, sum(Inputs(amount)))

Accepted(amount) == AmountsFit(Inputs(amount), Outputs(amount))

\* The same payment at another node.
PeerInputs(amount)  == SubSeq(peerCoins, 1, CoinsFor(amount))
PeerOutputs(amount) ==
  LET outs == Outputs(amount) IN [i \in DOMAIN outs |-> Received(outs[i])]

AcceptedByPeers(amount) == AmountsFit(PeerInputs(amount), PeerOutputs(amount))

\* The coins after a payment: those not taken, and the difference.
After(list, amount, outs) ==
  SubSeq(list, CoinsFor(amount) + 1, Len(list)) \o Tail(outs)

\* What a block pays.
Coinbase == COINBASE_AMOUNT * Quanta

\* A coinbase is a whole number, which a text holds as it is.
Mine ==
  /\ mined < MaxCoins
  /\ mined' = mined + 1
  /\ coins' = Append(coins, Coinbase)
  /\ peerCoins' = Append(peerCoins, Received(Coinbase))

\* A payment that all nodes accept gets into a block.
Pay(amount) ==
  /\ CoinsFor(amount) > 0
  /\ Accepted(amount) /\ AcceptedByPeers(amount)
  /\ coins' = After(coins, amount, Outputs(amount))
  /\ peerCoins' = After(peerCoins, amount, PeerOutputs(amount))
  /\ UNCHANGED mined

Init == coins = <<>> /\ peerCoins = <<>> /\ mined = 0

Next == Mine \/ \E k \in TypedAmounts : Pay(Typed(k))

Spec == Init /\ [][Next]_vars

-----------------------------------------------------------------------------
(* Properties *)

Payable == {amount \in {Typed(k) : k \in TypedAmounts} : CoinsFor(amount) > 0}

\* After any payments, a wallet that holds enough can pay: the node accepts the
\* transaction it makes, though the amounts of the inputs and of the outputs
\* are added in different orders (the comment of Transactions.cpp:264 wants the
\* two sums to be equal).
PaymentsFit == \A amount \in Payable : Accepted(amount)

\* A payment that its own node accepts, other nodes accept too, although they
\* read the amounts from a text.
PeersAccept ==
  \A amount \in Payable : Accepted(amount) => AcceptedByPeers(amount)

\* The nodes agree on what the coins of the owner are worth; their digests, made
\* of the same texts, would not show a difference.
SameWorth == coins = peerCoins

\* The formats hold the multiples of G exactly, up to all that the owner may earn: a
\* coinbase and what users type are such multiples, and so is what a text holds of
\* one.  With floats of 24 digits and texts of six, and a coinbase of 10, that is
\* so for 64ths of a coin and for less than 2^18 coins.
Exact(G) ==
  /\ G \in Units
  /\ Coinbase % G = 0 /\ MaxCoins * Coinbase < Significands * G
  /\ (G * TextUnits) % Quanta = 0
  /\ \A k \in TypedAmounts : Typed(k) \in Nat /\ Typed(k) % G = 0
=============================================================================
