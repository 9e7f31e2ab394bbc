-------------------------- MODULE AddressBookProofs --------------------------
(***************************************************************************)
(* What every implementation of the address book inherits.                 *)
(***************************************************************************)
EXTENDS AddressBook, TLAPS

BookInv == BookTypeOK /\ WantedExclusive

LEMMA BookTyping ==
  ASSUME BookAssumption, BookTypeOK, [Next]_vars
  PROVE  BookTypeOK'
<1>. USE DEF BookTypeOK
<1>1. ASSUME NEW c \in CR, NEW W \in Choice[c], Ask(c, W)
      PROVE  BookTypeOK'
  <2>1. W \in SUBSET Key
    BY DEF BookAssumption
  <2>. QED
    BY <1>1, <2>1 DEF Ask
<1>2. ASSUME NEW c \in CR, Remove(c)
      PROVE  BookTypeOK'
  BY <1>2 DEF Remove
<1>3. ASSUME NEW c \in CR, NEW k \in Key, NEW ip \in IP, Publish(c, k, ip)
      PROVE  BookTypeOK'
  <2>1. <<k, ip>> \in Entry
    BY DEF Entry
  <2>. QED
    BY <1>3, <2>1 DEF Publish
<1>4. ASSUME NEW c \in CR, NEW e \in published[c], Withdraw(c, e)
      PROVE  BookTypeOK'
  BY <1>4 DEF Withdraw
<1>5. CASE UNCHANGED vars
  BY <1>5 DEF vars
<1>. QED
  BY <1>1, <1>2, <1>3, <1>4, <1>5 DEF Next

\* A new entry is for a key that had none and an address that no wanted key had.
LEMMA PublishKeeps ==
  ASSUME BookInv, NEW c \in CR, NEW k \in Key, NEW ip \in IP, Publish(c, k, ip)
  PROVE  WantedExclusive'
<1>1. /\ wanted' = wanted
      /\ published'[c] = published[c] \cup {<<k, ip>>}
      /\ \A d \in CR \ {c} : published'[d] = published[d]
  BY DEF BookInv, BookTypeOK, Publish
<1>. SUFFICES ASSUME NEW a \in CR, NEW d \in CR,
                     NEW e \in published'[a], NEW f \in published'[d],
                     e[1] \in wanted[a], f[1] \in wanted[d],
                     e[2] = f[2] \/ (a = d /\ e[1] = f[1])
              PROVE  a = d /\ e = f
  BY <1>1 DEF WantedExclusive
<1>2. CASE e \in published[a] /\ f \in published[d]
  BY <1>2 DEF BookInv, WantedExclusive
<1>3. CASE e \notin published[a]
  <2>1. a = c /\ e = <<k, ip>>
    BY <1>1, <1>3
  <2>2. f \notin published[d]
    BY <2>1 DEF Publish
  <2>. QED
    BY <1>1, <2>1, <2>2
<1>4. CASE f \notin published[d]
  <2>1. d = c /\ f = <<k, ip>>
    BY <1>1, <1>4
  <2>2. e \notin published[a]
    BY <2>1 DEF Publish
  <2>. QED
    BY <1>1, <2>1, <2>2
<1>. QED
  BY <1>2, <1>3, <1>4

LEMMA BookInductive ==
  ASSUME BookAssumption, BookInv, [Next]_vars
  PROVE  BookInv'
<1>0. BookTypeOK'
  BY BookTyping DEF BookInv
<1>1. ASSUME NEW c \in CR, NEW W \in Choice[c], Ask(c, W)
      PROVE  WantedExclusive'
  <2>1. \A d \in CR : \A e \in published[d] : e[1] \in wanted'[d] => e[1] \in wanted[d]
    BY <1>1 DEF Ask, BookInv, BookTypeOK
  <2>2. published' = published
    BY <1>1 DEF Ask
  <2>. QED
    BY <2>1, <2>2 DEF BookInv, WantedExclusive
<1>2. ASSUME NEW c \in CR, Remove(c)
      PROVE  WantedExclusive'
  <2>1. \A d \in CR : published'[d] \subseteq published[d] /\ wanted'[d] \subseteq wanted[d]
    BY <1>2 DEF Remove, BookInv, BookTypeOK
  <2>. QED
    BY <2>1 DEF BookInv, WantedExclusive
<1>3. ASSUME NEW c \in CR, NEW k \in Key, NEW ip \in IP, Publish(c, k, ip)
      PROVE  WantedExclusive'
  BY <1>3, PublishKeeps
<1>4. ASSUME NEW c \in CR, NEW e \in published[c], Withdraw(c, e)
      PROVE  WantedExclusive'
  <2>1. wanted' = wanted /\ \A d \in CR : published'[d] \subseteq published[d]
    BY <1>4 DEF Withdraw, BookInv, BookTypeOK
  <2>. QED
    BY <2>1 DEF BookInv, WantedExclusive
<1>5. ASSUME Next
      PROVE  WantedExclusive'
  <2>1. PICK c \in CR :
          \/ \E W \in Choice[c] : Ask(c, W)
          \/ Remove(c)
          \/ \E k \in Key, ip \in IP : Publish(c, k, ip)
          \/ \E e \in published[c] : Withdraw(c, e)
    BY <1>5 DEF Next
  <2>. QED
    BY <2>1, <1>1, <1>2, <1>3, <1>4
<1>6. ASSUME UNCHANGED vars
      PROVE  WantedExclusive'
  <2>1. wanted' = wanted /\ published' = published
    BY <1>6 DEF vars
  <2>. QED
    BY <2>1 DEF BookInv, WantedExclusive
<1>. QED
  BY <1>0, <1>5, <1>6 DEF BookInv

\* In every behaviour of the address book the hosts that are asked for have
\* addresses of their own, however entries come and go and are asked for again.
THEOREM WantedAreExclusive ==
  ASSUME BookAssumption
  PROVE  Spec => []WantedExclusive
<1>1. Init => BookInv
  BY DEF Init, BookInv, BookTypeOK, WantedExclusive
<1>2. BookInv /\ [Next]_vars => BookInv'
  BY BookInductive
<1>. QED
  BY <1>1, <1>2, PTL DEF Spec, BookInv

=============================================================================
