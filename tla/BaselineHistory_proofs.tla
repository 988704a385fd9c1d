----------------------- MODULE BaselineHistory_proofs -----------------------
(* The history of the baseline is a line, for every set of versions.       *)
EXTENDS BaselineHistory, TLAPS

\* Every version a link leads to has been retired since or is the head; this
\* is what keeps a new head from being the successor of two versions.
IInv ==
    /\ Linear
    /\ head = NoVersion => superseded = {}
    /\ \A link \in superseded : link[2] \in Retired \cup {head}

\* A new link starts at the old head and ends at a version no link knows.
LEMMA SupersedeKeeps ==
    ASSUME IInv, NoVersion \notin Versions,
           NEW version \in Versions, Supersede(version)
    PROVE  IInv'
<1>1. Retired' = Retired \cup {head}
  <2>1. superseded' = superseded \cup {<<head, version>>}
    BY DEF Supersede
  <2>2. <<head, version>>[1] = head
    OBVIOUS
  <2>3. Retired' = {link[1] : link \in superseded'}
    BY DEF Retired
  <2>4. \A v : v \in Retired' <=> v \in Retired \/ v = head
    BY <2>1, <2>2, <2>3 DEF Retired
  <2>5. QED BY <2>4
<1>2. \A link \in superseded : link[1] # head /\ link[2] # version
  BY DEF IInv, Linear, Retired, Supersede
<1>3. Linear'
  <2>1. head' \notin Retired'
    BY <1>1 DEF Supersede
  <2>2. ASSUME NEW one \in superseded', NEW two \in superseded'
        PROVE  one[1] = two[1] <=> one[2] = two[2]
    BY <1>2 DEF IInv, Linear, Supersede
  <2>3. QED BY <2>1, <2>2 DEF Linear
<1>4. head' # NoVersion
  BY DEF Supersede
<1>5. ASSUME NEW link \in superseded'
      PROVE  link[2] \in Retired' \cup {head'}
  BY <1>1 DEF IInv, Supersede
<1>6. QED BY <1>3, <1>4, <1>5 DEF IInv

\* The baseline history never forks, joins or returns to a superseded
\* version, whichever versions the code side declares (_roll_over).
THEOREM HistoryIsLinear ==
    ASSUME NoVersion \notin Versions
    PROVE  Spec => []Linear
<1>1. Init => IInv
  BY DEF Init, IInv, Linear, Retired
<1>2. IInv /\ [Next]_<<head, superseded>> => IInv'
  <2>1. SUFFICES ASSUME IInv, [Next]_<<head, superseded>> PROVE IInv'
    OBVIOUS
  <2>2. CASE Seed
    BY <2>1, <2>2 DEF Seed, IInv, Linear, Retired
  <2>3. ASSUME NEW version \in Versions, Supersede(version) PROVE IInv'
    BY <2>1, <2>3, SupersedeKeeps
  <2>4. CASE UNCHANGED <<head, superseded>>
    BY <2>1, <2>4 DEF IInv, Linear, Retired
  <2>5. QED BY <2>1, <2>2, <2>3, <2>4 DEF Next
<1>3. IInv => Linear
  BY DEF IInv
<1>4. QED BY <1>1, <1>2, <1>3, PTL DEF Spec

=============================================================================
