------------------------- MODULE LoadProfile_proofs -------------------------
(***************************************************************************)
(* The newest records are in the ring and a block holds the records that   *)
(* are due, for rings, blocks and ranges of any size.                      *)
(*                                                                         *)
(* Two records share a place of the ring only when they are a ring's       *)
(* length apart (SlotsApart), so a save touches none of the newest         *)
(* records; a restart takes the counter back by no more than the gap, so   *)
(* that what was saved in between has not reached the window of the        *)
(* counter that comes back (Held).  A transfer is answered from what was   *)
(* in the window when it was asked for (Transfer), by a cursor that stands *)
(* at the record that is due next (CursorDue).                             *)
(***************************************************************************)
EXTENDS LoadProfile, TLAPS

-----------------------------------------------------------------------------
(* Division with a remainder. *)

LEMMA DivMod ==
    ASSUME NEW n \in Nat \ {0}, NEW a \in Nat
    PROVE  /\ a = n * (a \div n) + (a % n)
           /\ a % n \in 0 .. n - 1 /\ a \div n \in Nat
    OBVIOUS

LEMMA ModUnique ==
    ASSUME NEW n \in Nat \ {0}, NEW q \in Nat, NEW r \in 0 .. n - 1
    PROVE  (n * q + r) % n = r
    OBVIOUS

LEMMA Multiple ==
    ASSUME NEW n \in Nat \ {0}, NEW q \in Int
    PROVE  (q >= 1 => n * q >= n) /\ (q <= 0 => n * q <= 0) /\ n * q \in Int
    OBVIOUS

(* Numbers with the same remainder are at least the divisor apart.         *)
LEMMA Apart ==
    ASSUME NEW n \in Nat \ {0}, NEW a \in Nat, NEW b \in Nat,
           a < b, a % n = b % n
    PROVE  b - a >= n
<1> DEFINE q == (b \div n) - (a \div n)
<1>1. a = n * (a \div n) + (a % n) /\ a \div n \in Nat /\ a % n \in 0 .. n - 1
    BY DivMod
<1>2. b = n * (b \div n) + (b % n) /\ b \div n \in Nat
    BY DivMod
<1>3. n * q = n * (b \div n) - n * (a \div n)
    BY <1>1, <1>2
<1>4. b - a = n * q
    BY <1>1, <1>2, <1>3
<1>5. q \in Int
    BY <1>1, <1>2
<1> HIDE DEF q
<1>6. QED
    BY <1>4, <1>5, Multiple

(* The remainders of c and of e before it, counted from the end, differ as *)
(* c and e do.                                                             *)
LEMMA Back ==
    ASSUME NEW n \in Nat \ {0}, NEW c \in Nat, NEW e \in Nat, e <= c
    PROVE  (n - 1 - (c % n) + (c - e)) % n = n - 1 - (e % n)
<1> DEFINE q == (c \div n) - (e \div n)
           r == n - 1 - (e % n)
<1>1. c = n * (c \div n) + (c % n) /\ c \div n \in Nat /\ c % n \in 0 .. n - 1
    BY DivMod
<1>2. e = n * (e \div n) + (e % n) /\ e \div n \in Nat /\ e % n \in 0 .. n - 1
    BY DivMod
<1>3. n * q = n * (c \div n) - n * (e \div n)
    BY <1>1, <1>2
<1>4. n - 1 - (c % n) + (c - e) = n * q + r
    BY <1>1, <1>2, <1>3
<1>5. q \in Int /\ r \in 0 .. n - 1
    BY <1>1, <1>2
<1>6. n * q + r >= 0
    BY <1>1, <1>4
<1> HIDE DEF q, r
<1>7. q >= 0
  <2>1. q <= -1 => n * q <= -n
      BY <1>5
  <2>2. QED
      BY <1>5, <1>6, <2>1
<1>8. (n * q + r) % n = r
    BY <1>5, <1>7, ModUnique
<1>9. QED
    BY <1>4, <1>8 DEF r

-----------------------------------------------------------------------------
(* The ring. *)

LEMMA BufSize ==
    ASSUME profile \in Profiles
    PROVE  /\ Size[profile] \in Nat \ {0} /\ Gap[profile] \in Nat \ {0}
           /\ Unit[profile] \in Nat \ {0}
           /\ Buf \in Nat \ {0} /\ Buf = Size[profile] + Gap[profile]
    BY ProfileAssumption DEF Buf

LEMMA SlotRange ==
    ASSUME profile \in Profiles, NEW k \in Nat
    PROVE  Slot(k) \in 0 .. Buf - 1
<1>1. Buf \in Nat \ {0}
    BY BufSize
<1>2. k % Buf \in 0 .. Buf - 1
    BY <1>1, DivMod
<1>. HIDE DEF Buf
<1>. QED BY <1>1, <1>2 DEF Slot

(* Records that share a place are the length of the ring apart.            *)
LEMMA SlotsApart ==
    ASSUME profile \in Profiles, NEW k \in Nat, NEW m \in Nat,
           k < m, Slot(k) = Slot(m)
    PROVE  k <= m - Buf
<1>1. Buf \in Nat \ {0}
    BY BufSize
<1>2. k % Buf \in Int /\ m % Buf \in Int
    BY <1>1, DivMod
<1>3. k % Buf = m % Buf
    BY <1>1, <1>2 DEF Slot
<1>4. m - k >= Buf
    BY <1>1, <1>3, Apart
<1>. QED BY <1>1, <1>4

(* From record k on, record e is k - e places away.                        *)
LEMMA AfterIsSlot ==
    ASSUME profile \in Profiles, NEW k \in Nat, NEW e \in Nat, e <= k
    PROVE  After(k, k - e) = Slot(e)
<1>1. Buf \in Nat \ {0}
    BY BufSize
<1>. QED BY <1>1, Back DEF After, Slot

-----------------------------------------------------------------------------
(* The inductive invariant. *)

(* The counter does not come back as it was saved but begins anew.         *)
Anew == Ram \/ (profile = "LP" /\ cleared)

Good(k) == ring[Slot(k)] = <<k, hist[k]>>

Power ==
    /\ off = ~ac_high
    /\ seen <= index
    /\ ~Anew => seen <= kept /\ kept <= index /\ index <= kept + MaxUnsaved

Held ==
    \A k \in 0 .. index - 1 :
        k >= (IF Anew THEN index - Buf ELSE kept - Size[profile]) => Good(k)

Transfer ==
    asked # NoRequest =>
        /\ asked.n <= index
        /\ \A k \in 0 .. index - 1 :
              k >= asked.n - Size[profile] /\ k >= index - Buf => Good(k)

Plain(a) == ~Straddles(a) /\ ~Unlimited(a)

CursorDue ==
    asked # NoRequest /\ Plain(asked) =>
        \A j \in asked.sent .. asked.sent + getresp_LP_len - 1 :
            IsDue(asked, j, getresp_LP_index + asked.sent - j)

IInv == TypeOK /\ Power /\ Held /\ Transfer /\ CursorDue /\ BlockIsDue

LEMMA HeldIsWindow ==
    ASSUME IInv
    PROVE  WindowHeld
<1>. SUFFICES ASSUME NEW k \in Most(0, index - Size[profile]) .. index - 1
              PROVE  Good(k)
    BY DEF WindowHeld, Good
<1>1. k \in 0 .. index - 1 /\ k >= index - Size[profile]
    BY BufSize DEF IInv, TypeOK, Most
<1>2. CASE Anew
  <2>1. k >= index - Buf
      BY <1>1, BufSize DEF IInv, TypeOK
  <2>. QED BY <1>1, <1>2, <2>1 DEF IInv, Held
<1>3. CASE ~Anew
  <2>1. k >= kept - Size[profile]
      BY <1>1, <1>3, BufSize DEF IInv, TypeOK, Power
  <2>. QED BY <1>1, <1>3, <2>1 DEF IInv, Held
<1>. QED BY <1>2, <1>3

LEMMA InitInv ==
    ASSUME Init
    PROVE  IInv
<1>. USE ProfileAssumption DEF Init
<1>1. Blank \in Record
    BY DEF Blank, Record
<1>2. ring \in [0 .. Buf - 1 -> Record]
    BY <1>1
<1>3. TypeOK
  <2>1. /\ getresp_LP_len \in 0 .. LenMod - 1
        /\ index \in 0 .. MaxIndex /\ kept \in 0 .. MaxIndex
        /\ seen \in 0 .. MaxIndex /\ gen \in 1 .. MaxLosses + 1
        /\ getresp_LP_index \in Int
      OBVIOUS
  <2>2. hist \in [0 .. MaxIndex -> 0 .. MaxLosses + 1]
      OBVIOUS
  <2>3. asked \in Requests \cup {NoRequest}
      OBVIOUS
  <2>4. /\ profile \in Profiles
        /\ cleared \in BOOLEAN /\ sag_flag \in BOOLEAN
        /\ bootflag \in BOOLEAN /\ run \in {"on", "boot", "saged"}
        /\ ac \in BOOLEAN /\ ac_high \in BOOLEAN /\ off \in BOOLEAN
      OBVIOUS
  <2>. QED BY <1>2, <2>1, <2>2, <2>3, <2>4 DEF TypeOK
<1>4. Power
  <2>1. off = ~ac_high
      OBVIOUS
  <2>2. seen <= index /\ seen <= kept /\ kept <= index
      OBVIOUS
  <2>3. index <= kept + MaxUnsaved
      OBVIOUS
  <2>. QED BY <2>1, <2>2, <2>3 DEF Power
<1>5. Held
    BY DEF Held
<1>6. Transfer /\ CursorDue /\ BlockIsDue
    BY DEF Transfer, CursorDue, BlockIsDue
<1>. QED BY <1>3, <1>4, <1>5, <1>6 DEF IInv

-----------------------------------------------------------------------------
(* What the steps have in common. *)

(* The ring and the transfer are left alone and no block is sent.          *)
LEMMA RingStays ==
    ASSUME IInv, UNCHANGED <<profile, ring, index, hist, asked,
                             getresp_LP_index, getresp_LP_len>>,
           block' = NoBlock
    PROVE  Transfer' /\ CursorDue' /\ BlockIsDue'
<1>1. Transfer'
    BY DEF IInv, Transfer, Good, Slot, Buf
<1>2. CursorDue'
    BY DEF IInv, CursorDue, Plain, Straddles, Unlimited, IsDue
<1>3. BlockIsDue'
    BY DEF BlockIsDue, NoBlock
<1>. QED BY <1>1, <1>2, <1>3

LEMMA NoneAsked ==
    ASSUME asked' = NoRequest
    PROVE  Transfer' /\ CursorDue' /\ BlockIsDue'
BY DEF Transfer, CursorDue, BlockIsDue

(* A record that is saved leaves the others of the window alone.           *)
LEMMA WriteInv ==
    ASSUME IInv, Write, block' = NoBlock,
           UNCHANGED <<profile, kept, cleared, cursorVars>>
    PROVE  /\ index' \in 0 .. MaxIndex
           /\ ring' \in [0 .. Buf - 1 -> Record]
           /\ hist' \in [0 .. MaxIndex -> 0 .. MaxLosses + 1]
           /\ Held' /\ Transfer' /\ CursorDue' /\ BlockIsDue'
           /\ index' = index + 1
           /\ ~Anew => index' <= kept + MaxUnsaved
<1>. USE DEF Write, cursorVars
<1>1. /\ profile \in Profiles /\ index \in 0 .. MaxIndex
      /\ kept \in 0 .. MaxIndex /\ MaxIndex \in Nat
      /\ MaxUnsaved \in Nat \ {0}
      /\ ring \in [0 .. Buf - 1 -> Record]
      /\ hist \in [0 .. MaxIndex -> 0 .. MaxLosses + 1]
      /\ gen \in 1 .. MaxLosses + 1 /\ MaxLosses \in Nat
    BY ProfileAssumption DEF IInv, TypeOK
<1>2. index < MaxIndex /\ index' = index + 1
    BY DEF Room
<1>3. <<index, gen>> \in Record
    BY <1>1, <1>2 DEF Record
<1>4. index' \in 0 .. MaxIndex
    BY <1>1, <1>2
<1>5. ring' \in [0 .. Buf - 1 -> Record]
    BY <1>1, <1>3
<1>6. hist' \in [0 .. MaxIndex -> 0 .. MaxLosses + 1]
    BY <1>1
<1>7. \A k \in Nat : k = index => Good(k)'
  <2>1. Slot(index) \in 0 .. Buf - 1
      BY <1>1, SlotRange
  <2>2. ring'[Slot(index)] = <<index, gen>>
      BY <1>1, <2>1
  <2>3. hist'[index] = gen
      BY <1>1
  <2>. QED BY <2>2, <2>3 DEF Good, Slot, Buf
<1>8. ASSUME NEW k \in Nat, k < index, k > index - Buf, Good(k)
      PROVE  Good(k)'
  <2>1. Slot(k) # Slot(index)
      BY <1>1, <1>8, BufSize, SlotsApart
  <2>2. ring'[Slot(k)] = ring[Slot(k)]
      BY <1>1, <1>8, <2>1, SlotRange
  <2>3. hist'[k] = hist[k]
      BY <1>1, <1>8
  <2>. QED BY <1>8, <2>2, <2>3 DEF Good, Slot, Buf
<1>9. Anew' = Anew /\ Buf' = Buf /\ Buf \in Nat \ {0}
    BY <1>1, BufSize DEF Anew, Buf, Ram
<1>10. ~Anew => index - kept < MaxUnsaved /\ MaxUnsaved <= Gap[profile]
    BY <1>1, ProfileAssumption DEF Anew, Room, Ram
<1>11. Held'
  <2>. SUFFICES ASSUME NEW k \in 0 .. index,
                       k >= (IF Anew THEN index + 1 - Buf
                             ELSE kept - Size[profile])
                PROVE  Good(k)'
      BY <1>1, <1>2, <1>9 DEF Held
  <2>1. CASE k = index
      BY <1>1, <1>7, <2>1
  <2>2. CASE k # index
    <3>1. CASE Anew
      <4>1. k > index - Buf /\ k \in 0 .. index - 1
          BY <1>1, <1>9, <2>2, <3>1
      <4>2. Good(k)
          BY <3>1, <1>1, <1>9, <4>1 DEF IInv, Held
      <4>. QED BY <1>1, <1>8, <4>1, <4>2
    <3>2. CASE ~Anew
      <4>1. k >= kept - Size[profile] /\ k \in 0 .. index - 1
          BY <1>1, <2>2, <3>2
      <4>2. index - kept < MaxUnsaved /\ MaxUnsaved <= Gap[profile]
          BY <1>10, <3>2
      <4>3. /\ Buf = Size[profile] + Gap[profile] /\ Size[profile] \in Int
            /\ Gap[profile] \in Int /\ k \in Int /\ index \in Int
            /\ kept \in Int /\ MaxUnsaved \in Int
          BY <1>1, BufSize
      <4>. HIDE DEF Write, cursorVars
      <4>5. k > index - Buf
          BY <4>1, <4>2, <4>3
      <4>4. Good(k)
          BY <3>2, <4>1 DEF IInv, Held
      <4>. QED BY <1>1, <1>8, <4>1, <4>4, <4>5
    <3>. QED BY <3>1, <3>2
  <2>. QED BY <2>1, <2>2
<1>12. Transfer'
  <2>. SUFFICES ASSUME asked # NoRequest
                PROVE  /\ asked.n <= index + 1
                       /\ \A k \in 0 .. index :
                             /\ k >= asked.n - Size[profile]
                             /\ k >= index + 1 - Buf
                             => Good(k)'
      BY <1>1, <1>2, <1>9 DEF Transfer
  <2>1. asked.n \in 0 .. MaxIndex /\ asked.n <= index
      BY DEF IInv, TypeOK, Transfer, Requests
  <2>2. ASSUME NEW k \in 0 .. index, k >= asked.n - Size[profile],
               k >= index + 1 - Buf
        PROVE  Good(k)'
    <3>1. CASE k = index
        BY <1>1, <1>7, <3>1
    <3>2. CASE k # index
      <4>1. k > index - Buf /\ k \in 0 .. index - 1
          BY <1>1, <1>9, <2>2, <3>2
      <4>2. Good(k)
          BY <1>1, <1>9, <2>2, <4>1 DEF IInv, Transfer
      <4>. QED BY <1>1, <1>8, <4>1, <4>2
    <3>. QED BY <3>1, <3>2
  <2>. QED BY <1>1, <2>1, <2>2
<1>13. CursorDue'
    BY DEF IInv, CursorDue, Plain, Straddles, Unlimited, IsDue
<1>14. BlockIsDue'
    BY DEF BlockIsDue, NoBlock
<1>15. ~Anew => index' <= kept + MaxUnsaved
    BY <1>1, <1>2, <1>10
<1>. QED BY <1>2, <1>4, <1>5, <1>6, <1>11, <1>12, <1>13, <1>14, <1>15

-----------------------------------------------------------------------------
(* Saving, power failures and restarts. *)

LEMMA SaveInv ==
    ASSUME IInv, Save
    PROVE  IInv'
<1>1. /\ index' \in 0 .. MaxIndex
      /\ ring' \in [0 .. Buf - 1 -> Record]
      /\ hist' \in [0 .. MaxIndex -> 0 .. MaxLosses + 1]
      /\ Held' /\ Transfer' /\ CursorDue' /\ BlockIsDue'
      /\ index' = index + 1
      /\ ~Anew => index' <= kept + MaxUnsaved
    BY WriteInv DEF Save, nvVars
<1>. USE DEF Save, nvVars, powerVars, cursorVars
<1>2. Buf' = Buf /\ Anew' = Anew
    BY DEF Buf, Anew, Ram
<1>3. TypeOK'
    BY <1>1, <1>2 DEF IInv, TypeOK
<1>4. Power'
    BY <1>1, <1>2 DEF IInv, TypeOK, Power
<1>. QED BY <1>1, <1>3, <1>4 DEF IInv

LEMMA BackupInv ==
    ASSUME IInv, Backup
    PROVE  IInv'
<1>. USE DEF Backup, ringVars, powerVars, cursorVars
<1>1. Transfer' /\ CursorDue' /\ BlockIsDue'
    BY RingStays
<1>2. Buf' = Buf /\ Anew' = Anew /\ \A k : Good(k)' = Good(k)
    BY DEF Buf, Anew, Ram, Good, Slot
<1>3. TypeOK'
    BY <1>2 DEF IInv, TypeOK
<1>4. Power'
    BY <1>2, ProfileAssumption DEF IInv, TypeOK, Power
<1>5. Held'
  <2>1. CASE Anew
      BY <1>2, <2>1 DEF IInv, Held
  <2>2. CASE ~Anew
    <3>1. \A k \in 0 .. index - 1 : k >= index - Size[profile]
                                    => k >= kept - Size[profile]
        BY <2>2, BufSize DEF IInv, TypeOK, Power
    <3>. QED BY <1>2, <2>2, <3>1 DEF IInv, Held
  <2>. QED BY <2>1, <2>2
<1>. QED BY <1>1, <1>3, <1>4, <1>5 DEF IInv

LEMMA MainsInv ==
    ASSUME IInv, Mains
    PROVE  IInv'
<1>. USE DEF Mains, ringVars, nvVars, cursorVars
<1>1. Transfer' /\ CursorDue' /\ BlockIsDue'
    BY RingStays
<1>2. Buf' = Buf /\ Anew' = Anew /\ \A k : Good(k)' = Good(k)
    BY DEF Buf, Anew, Ram, Good, Slot
<1>3. TypeOK'
    BY <1>2 DEF IInv, TypeOK
<1>4. Power' /\ Held'
    BY <1>2 DEF IInv, Power, Held
<1>. QED BY <1>1, <1>3, <1>4 DEF IInv

LEMMA SagDetectInv ==
    ASSUME IInv, SagDetect
    PROVE  IInv'
<1>. USE DEF SagDetect, ringVars, cursorVars
<1>1. Transfer' /\ CursorDue' /\ BlockIsDue'
    BY RingStays
<1>2. Buf' = Buf /\ Anew' = Anew /\ \A k : Good(k)' = Good(k)
    BY DEF Buf, Anew, Ram, Good, Slot
<1>3. kept' = kept \/ kept' = index
    OBVIOUS
<1>4. TypeOK'
  <2>1. ac_high' \in BOOLEAN /\ off' \in BOOLEAN /\ sag_flag' \in BOOLEAN
      BY DEF IInv, TypeOK, Rearmed
  <2>2. seen' \in 0 .. MaxIndex /\ kept' \in 0 .. MaxIndex
      BY DEF IInv, TypeOK
  <2>. QED BY <1>2, <2>1, <2>2 DEF IInv, TypeOK
<1>5. Power'
  <2>1. off' = ~ac_high'
      BY DEF IInv, TypeOK, Rearmed
  <2>2. seen' <= index
      BY DEF IInv, TypeOK, Power
  <2>3. ~Anew => seen' <= kept' /\ kept' <= index
                 /\ index <= kept' + MaxUnsaved
    <3>1. CASE ~ac /\ ac_high
        BY <3>1, ProfileAssumption DEF IInv, TypeOK, Power
    <3>2. CASE ~(~ac /\ ac_high)
        BY <3>2, ProfileAssumption DEF IInv, TypeOK, Power
    <3>. QED BY <3>1, <3>2
  <2>. QED BY <1>2, <2>1, <2>2, <2>3 DEF Power
<1>6. Held'
  <2>1. CASE Anew
      BY <1>2, <2>1 DEF IInv, Held
  <2>2. CASE ~Anew
    <3>1. kept' >= kept
        BY <1>3, <2>2 DEF IInv, TypeOK, Power
    <3>2. \A k \in 0 .. index - 1 : k >= kept' - Size[profile]
                                    => k >= kept - Size[profile]
        BY <1>3, <3>1, BufSize DEF IInv, TypeOK
    <3>. QED BY <1>2, <2>2, <3>2 DEF IInv, Held
  <2>. QED BY <2>1, <2>2
<1>. QED BY <1>1, <1>4, <1>5, <1>6 DEF IInv

(* However the meter starts again, the counter and the ring fit together.  *)
LEMMA BootInv ==
    ASSUME IInv, NEW n, NEW s \in BOOLEAN, NEW c \in BOOLEAN,
           Boot(n, s, c), bootflag' \in BOOLEAN,
           ~c => ~cleared /\ n \in {kept, index}
    PROVE  IInv'
<1>. USE DEF Boot, NoTransfer
<1>1. Transfer' /\ CursorDue' /\ BlockIsDue'
    BY NoneAsked
<1>2. /\ profile \in Profiles /\ index \in 0 .. MaxIndex
      /\ kept \in 0 .. MaxIndex /\ seen \in 0 .. MaxIndex
      /\ ring \in [0 .. Buf - 1 -> Record]
      /\ hist \in [0 .. MaxIndex -> 0 .. MaxLosses + 1]
      /\ gen \in 1 .. MaxLosses + 1
      /\ MaxIndex \in Nat /\ MaxLosses \in Nat /\ MaxUnsaved \in Nat \ {0}
      /\ LenMod \in Nat \ {0}
    BY ProfileAssumption DEF IInv, TypeOK
<1>3. Buf' = Buf /\ Ram' = Ram /\ (Anew' <=> Ram)
    BY DEF Buf, Anew, Ram
<1>4. DEFINE m == IF c \/ Ram THEN 0 ELSE n
<1>5. DropFrom(m)
    OBVIOUS
<1>6. index' = m /\ m \in 0 .. MaxIndex
    BY <1>2, <1>5 DEF DropFrom
<1>7. TypeOK'
  <2>1. ring' \in [0 .. Buf - 1 -> Record]
    <3>1. Blank \in Record
        BY <1>2 DEF Blank, Record
    <3>. QED BY <1>2, <3>1
  <2>2. hist' = [k \in 0 .. MaxIndex |-> IF k < m THEN hist[k] ELSE 0]
      BY <1>5 DEF DropFrom
  <2>3. hist' \in [0 .. MaxIndex -> 0 .. MaxLosses + 1]
      BY <1>2, <2>2
  <2>4. gen' \in 1 .. MaxLosses + 1
      BY <1>2, <1>5 DEF DropFrom
  <2>5. kept' \in 0 .. MaxIndex /\ seen' \in 0 .. MaxIndex
      BY <1>2
  <2>6. sag_flag' \in BOOLEAN /\ run' \in {"on", "boot", "saged"}
      OBVIOUS
  <2>7. /\ getresp_LP_index' \in Int /\ getresp_LP_len' \in 0 .. LenMod - 1
        /\ asked' \in Requests \cup {NoRequest}
      BY <1>2
  <2>8. /\ profile' \in Profiles /\ ac' \in BOOLEAN
        /\ cleared' \in BOOLEAN /\ ac_high' \in BOOLEAN
        /\ off' \in BOOLEAN
      BY <1>2 DEF IInv, TypeOK
  <2>. HIDE DEF Boot, NoTransfer, m
  <2>. QED BY <1>3, <1>6, <2>1, <2>3, <2>4, <2>5, <2>6, <2>7, <2>8
           DEF TypeOK
<1>8. ~Ram => kept' = m
    BY <1>2
<1>9. ~c /\ ~Ram => ~Anew /\ m = n /\ n >= kept /\ kept >= seen
    BY <1>2 DEF IInv, Power, Anew
<1>10. Power'
  <2>1. off' = ~ac_high'
      OBVIOUS
  <2>2. seen' <= index'
      BY <1>2, <1>6, <1>9
  <2>3. ~Ram => seen' <= kept' /\ kept' <= index'
                /\ index' <= kept' + MaxUnsaved
      BY <1>2, <1>6, <1>8, <2>2
  <2>. QED BY <1>3, <2>1, <2>2, <2>3 DEF Power
<1>11. Held'
  <2>1. CASE c \/ Ram
      BY <1>6, <2>1 DEF Held
  <2>2. CASE ~c /\ ~Ram
    <3>. SUFFICES ASSUME NEW k \in 0 .. m - 1, k >= m - Size[profile]
                  PROVE  Good(k)'
        BY <1>3, <1>6, <1>8, <2>2 DEF Held
    <3>1. n \in {kept, index} /\ n <= index
        BY <1>2, <1>9, <2>2 DEF IInv, Power
    <3>2. k \in 0 .. index - 1 /\ k >= kept - Size[profile]
      <4>1. /\ m = n /\ n >= kept /\ n <= index /\ n \in Nat
            /\ kept \in Nat /\ index \in Nat
          BY <1>2, <1>9, <2>2, <3>1
      <4>2. Size[profile] \in Nat
          BY <1>2, BufSize
      <4>. HIDE DEF Boot, NoTransfer, m
      <4>. QED BY <4>1, <4>2
    <3>3. Good(k)
        BY <1>9, <2>2, <3>2 DEF IInv, Held
    <3>4. hist'[k] = hist[k]
        BY <1>2, <1>5, <1>6 DEF DropFrom
    <3>. QED BY <2>2, <3>3, <3>4 DEF Good, Slot, Buf
  <2>. QED BY <2>1, <2>2
<1>. QED BY <1>1, <1>7, <1>10, <1>11 DEF IInv

LEMMA RestartInv ==
    ASSUME IInv, Restart
    PROVE  IInv'
BY BootInv DEF Restart, IInv, TypeOK

LEMMA FirmwareRestartInv ==
    ASSUME IInv, FirmwareRestart
    PROVE  IInv'
BY BootInv DEF FirmwareRestart, IInv, TypeOK

LEMMA PowerReturnInv ==
    ASSUME IInv, PowerReturn
    PROVE  IInv'
<1>. USE DEF PowerReturn, powerVars, cursorVars
<1>1. sag_flag' \in BOOLEAN /\ bootflag' \in BOOLEAN
    BY DEF IInv, TypeOK
<1>2. Buf' = Buf /\ Anew' = Anew
    BY DEF Buf, Anew, Ram
<1>3. CASE Write
  <2>1. /\ index' \in 0 .. MaxIndex
        /\ ring' \in [0 .. Buf - 1 -> Record]
        /\ hist' \in [0 .. MaxIndex -> 0 .. MaxLosses + 1]
        /\ Held' /\ Transfer' /\ CursorDue' /\ BlockIsDue'
        /\ index' = index + 1
        /\ ~Anew => index' <= kept + MaxUnsaved
      BY <1>3, WriteInv
  <2>2. TypeOK'
      BY <1>1, <1>2, <2>1 DEF IInv, TypeOK
  <2>3. Power'
      BY <1>2, <2>1 DEF IInv, TypeOK, Power
  <2>. QED BY <2>1, <2>2, <2>3 DEF IInv
<1>4. CASE UNCHANGED ringVars
  <2>. USE DEF ringVars
  <2>1. Transfer' /\ CursorDue' /\ BlockIsDue'
      BY <1>4, RingStays
  <2>2. \A k : Good(k)' = Good(k)
      BY <1>4 DEF Good, Slot, Buf
  <2>3. TypeOK'
      BY <1>1, <1>2, <1>4 DEF IInv, TypeOK
  <2>4. Power' /\ Held'
      BY <1>2, <1>4, <2>2 DEF IInv, Power, Held
  <2>. QED BY <2>1, <2>3, <2>4 DEF IInv
<1>. QED BY <1>3, <1>4 DEF ringVars

LEMMA ClearInv ==
    ASSUME IInv, Clear
    PROVE  IInv'
<1>1. CASE Boot(0, FALSE, TRUE)
    BY <1>1, BootInv DEF Clear, IInv, TypeOK
<1>2. CASE ~Boot(0, FALSE, TRUE)
  <2>. USE DEF Clear
  <2>1. Transfer' /\ CursorDue' /\ BlockIsDue'
      BY <1>2, NoneAsked
  <2>2. Buf' = Buf /\ cleared' = TRUE /\ asked' = NoRequest
        /\ UNCHANGED <<profile, ring, kept, sag_flag, run, ac, ac_high, off,
                       getresp_LP_index, getresp_LP_len, bootflag>>
      BY <1>2 DEF Buf
  <2>3. CASE profile = "LP"
    <3>1. DropFrom(0) /\ seen' = 0
        BY <1>2, <2>3
    <3>2. index' = 0 /\ gen' \in 1 .. MaxLosses + 1
          /\ hist' \in [0 .. MaxIndex -> 0 .. MaxLosses + 1]
        BY <3>1, ProfileAssumption DEF DropFrom, IInv, TypeOK
    <3>3. Anew'
        BY <2>2, <2>3 DEF Anew
    <3>. HIDE DEF Clear
    <3>4. index' \in 0 .. MaxIndex /\ seen' \in 0 .. MaxIndex
        BY <3>1, <3>2, ProfileAssumption
    <3>5. TypeOK'
        BY <2>2, <3>2, <3>4 DEF IInv, TypeOK
    <3>6. Power' /\ Held'
        BY <2>2, <3>1, <3>2, <3>3 DEF IInv, Power, Held
    <3>. QED BY <2>1, <3>5, <3>6 DEF IInv
  <2>4. CASE profile # "LP"
    <3>1. UNCHANGED <<index, hist, gen, seen>>
        BY <1>2, <2>4
    <3>2. Anew' = Anew /\ \A k : Good(k)' = Good(k)
        BY <2>2, <2>4, <3>1 DEF Anew, Ram, Good, Slot, Buf
    <3>. HIDE DEF Clear
    <3>3. TypeOK'
        BY <2>2, <3>1 DEF IInv, TypeOK
    <3>4. Power' /\ Held'
        BY <2>2, <3>1, <3>2 DEF IInv, Power, Held
    <3>. QED BY <2>1, <3>3, <3>4 DEF IInv
  <2>. QED BY <2>3, <2>4
<1>. QED BY <1>1, <1>2

-----------------------------------------------------------------------------
(* Reading. *)

(* What any of these steps leaves alone.                                   *)
Still == UNCHANGED <<profile, ringVars, nvVars, powerVars, gen>>

LEMMA EmptyInv ==
    ASSUME IInv, Empty, Still
    PROVE  IInv'
<1>. USE DEF Empty, NoTransfer, Still, ringVars, nvVars, powerVars
<1>1. Transfer' /\ CursorDue' /\ BlockIsDue'
    BY NoneAsked
<1>2. Buf' = Buf /\ Anew' = Anew /\ \A k : Good(k)' = Good(k)
    BY DEF Buf, Anew, Ram, Good, Slot
<1>3. 0 \in 0 .. LenMod - 1
    BY ProfileAssumption
<1>4. TypeOK'
    BY <1>2, <1>3 DEF IInv, TypeOK
<1>5. Power' /\ Held'
    BY <1>2 DEF IInv, Power, Held
<1>. QED BY <1>1, <1>4, <1>5 DEF IInv

(* The records that are due for request a from place j on are those from   *)
(* record k down, n of them.                                               *)
Due(k, n, a) ==
    Plain(a) => \A j \in a.sent .. a.sent + n - 1 :
                   IsDue(a, j, k + a.sent - j)

Served(a) ==
    /\ a.n <= index
    /\ \A k \in 0 .. index - 1 :
          k >= a.n - Size[profile] /\ k >= index - Buf => Good(k)

(* A block that begins at the record that is due next holds the records    *)
(* due, and the cursor moves to the one after it.                          *)
LEMMA SendBlockInv ==
    ASSUME IInv, Still, NEW k \in Int, NEW n \in 1 .. LenMod - 1,
           NEW a \in Requests \cup {NoRequest}, SendBlock(k, n, a),
           a # NoRequest => Served(a) /\ Due(k, n, a)
    PROVE  IInv'
<1>. USE DEF Still, ringVars, nvVars, powerVars
<1> DEFINE r == Reclen(n)
<1>1. /\ profile \in Profiles /\ index \in 0 .. MaxIndex
      /\ MaxIndex \in Nat /\ LenMod \in Nat \ {0}
    BY ProfileAssumption DEF IInv, TypeOK
<1>2. r \in 1 .. n /\ n \in Nat /\ n < LenMod
    BY <1>1, BufSize DEF Reclen, Least
<1>3. /\ getresp_LP_index' = k - r /\ getresp_LP_len' = n - r
      /\ asked' = IF a = NoRequest THEN a ELSE [a EXCEPT !.sent = @ + r]
      /\ block' = [j \in a.sent .. a.sent + r - 1 |->
                      ring[After(k, j - a.sent)]]
    BY DEF SendBlock
<1>. HIDE DEF r
<1>4. Buf' = Buf /\ Anew' = Anew /\ \A m : Good(m)' = Good(m)
    BY DEF Buf, Anew, Ram, Good, Slot
<1>5. getresp_LP_index' \in Int /\ getresp_LP_len' \in 0 .. LenMod - 1
    BY <1>1, <1>2, <1>3
<1>6. asked' \in Requests \cup {NoRequest}
  <2>1. CASE a = NoRequest
      BY <1>3, <2>1
  <2>2. CASE a # NoRequest
    <3>1. a \in Requests /\ a.sent \in Nat
        BY <2>2 DEF Requests
    <3>2. asked' = [a EXCEPT !.sent = a.sent + r] /\ a.sent + r \in Nat
        BY <1>2, <1>3, <2>2, <3>1
    <3>. QED BY <3>1, <3>2 DEF Requests
  <2>. QED BY <2>1, <2>2
<1>7. TypeOK'
    BY <1>4, <1>5, <1>6 DEF IInv, TypeOK
<1>8. Power' /\ Held'
    BY <1>4 DEF IInv, Power, Held
<1>9. CASE a = NoRequest
    BY <1>3, <1>7, <1>8, <1>9, NoneAsked DEF IInv
<1>10. CASE a # NoRequest
  <2>1. /\ a \in Requests /\ a.sent \in Nat /\ a.n \in 0 .. MaxIndex
        /\ asked' = [a EXCEPT !.sent = a.sent + r]
      BY <1>3, <1>10 DEF Requests
  <2>2. /\ asked'.n = a.n /\ asked'.kind = a.kind /\ asked'.from = a.from
        /\ asked'.to = a.to /\ asked'.sent = a.sent + r
      BY <2>1 DEF Requests
  <2>3. Plain(asked)' = Plain(a)
      BY <2>2 DEF Plain, Straddles, Unlimited
  <2>4. Straddles(asked)' = Straddles(a) /\ Unlimited(asked)' = Unlimited(a)
      BY <2>2 DEF Straddles, Unlimited
  <2>5. Transfer'
      BY <1>4, <1>10, <2>2 DEF Transfer, Served
  <2>6. CursorDue'
    <3>. SUFFICES ASSUME Plain(a), NEW j \in a.sent + r .. a.sent + n - 1
                  PROVE  IsDue(a, j, (k - r) + (a.sent + r) - j)
        BY <1>2, <1>3, <2>1, <2>2, <2>3 DEF CursorDue, IsDue
    <3>1. j \in a.sent .. a.sent + n - 1
          /\ (k - r) + (a.sent + r) - j = k + a.sent - j
        BY <1>2, <2>1
    <3>. QED BY <1>10, <3>1 DEF Due
  <2>7. BlockIsDue'
    <3>1. index' = index /\ hist' = hist
              /\ DOMAIN block' = a.sent .. a.sent + r - 1
        BY <1>3
    <3>. SUFFICES ASSUME ~Straddles(asked)', ~Unlimited(asked)',
                         index - a.n <= Gap[profile],
                         NEW j \in a.sent .. a.sent + r - 1
                  PROVE  \E e \in 0 .. index - 1 :
                            IsDue(asked, j, e)' /\ block'[j] = <<e, hist[e]>>
        BY <2>2, <3>1 DEF BlockIsDue
    <3> DEFINE e == k + a.sent - j
    <3>2. IsDue(a, j, e)
        BY <1>2, <1>10, <2>1, <2>4 DEF Due, Plain
    <3>3. e \in Int /\ e <= k /\ k - e = j - a.sent
        BY <1>2, <2>1
    <3>4. e \in Nat /\ e >= a.n - Size[profile] /\ e < a.n
        BY <2>1, <3>2, <3>3, <1>1, BufSize DEF IsDue, Most
    <3>. HIDE DEF e
    <3>5. a.n <= index
        BY <1>10 DEF Served
    <3>6. e \in 0 .. index - 1 /\ e >= index - Buf
        BY <1>1, <2>1, <3>4, <3>5, BufSize
    <3>7. Good(e)
        BY <1>10, <3>4, <3>6 DEF Served
    <3>8. k \in Nat
        BY <3>3, <3>4
    <3>9. After(k, j - a.sent) = Slot(e)
        BY <1>1, <3>3, <3>4, <3>8, AfterIsSlot
    <3>10. block'[j] = <<e, hist[e]>>
        BY <1>3, <3>7, <3>9 DEF Good
    <3>11. IsDue(asked, j, e)'
        BY <2>2, <3>2 DEF IsDue
    <3>. QED BY <3>6, <3>10, <3>11
  <2>. QED BY <1>7, <1>8, <2>5, <2>6, <2>7 DEF IInv
<1>. QED BY <1>9, <1>10

(* What is asked for now is in the window.                                 *)
LEMMA AskedServed ==
    ASSUME IInv, NEW kind \in {"all", "range"}, NEW f \in Nat, NEW t \in Nat
    PROVE  /\ Asked(kind, f, t) \in Requests
           /\ Asked(kind, f, t) # NoRequest
           /\ Served(Asked(kind, f, t))
           /\ Asked(kind, f, t).n = index
           /\ Asked(kind, f, t).kind = kind
           /\ Asked(kind, f, t).from = f /\ Asked(kind, f, t).to = t
           /\ Asked(kind, f, t).sent = 0
<1>1. index \in 0 .. MaxIndex /\ kept \in 0 .. MaxIndex /\ MaxIndex \in Nat
    BY ProfileAssumption DEF IInv, TypeOK
<1>2. Asked(kind, f, t) \in Requests /\ Asked(kind, f, t) # NoRequest
    BY <1>1 DEF Asked, Requests, NoRequest
<1>3. Asked(kind, f, t).n = index
    BY DEF Asked
<1>4. \A k \in 0 .. index - 1 : k >= index - Size[profile] => Good(k)
  <2>1. \A k \in 0 .. index - 1 : k >= index - Size[profile] =>
            k \in Most(0, index - Size[profile]) .. index - 1
      BY <1>1, BufSize DEF IInv, TypeOK, Most
  <2>. QED BY <2>1, HeldIsWindow DEF WindowHeld, Good
<1>5. Served(Asked(kind, f, t))
    BY <1>1, <1>3, <1>4 DEF Served
<1>. QED BY <1>2, <1>3, <1>5 DEF Asked

LEMMA GetInv ==
    ASSUME IInv, Get
    PROVE  IInv'
<1>1. Still
    BY DEF Get, Still
<1>2. /\ profile \in Profiles /\ index \in 0 .. MaxIndex
      /\ MaxIndex \in Nat /\ LenMod \in Nat \ {0}
      /\ Size[profile] < LenMod
    BY ProfileAssumption DEF IInv, TypeOK
<1> DEFINE n == Least(index, Size[profile])
           a == Asked("all", 1, n)
<1>3. CASE index = 0
    BY <1>1, <1>3, EmptyInv DEF Get
<1>4. CASE index # 0
  <2>1. n \in 1 .. LenMod - 1 /\ n <= index /\ n <= Size[profile] /\ n \in Nat
      BY <1>2, <1>4, BufSize DEF Least
  <2>2. SendBlock(index - 1, n, a)
      BY <1>4, <2>1 DEF Get, Respond
  <2>. HIDE DEF n
  <2>3. /\ a \in Requests /\ a # NoRequest /\ Served(a) /\ a.n = index
        /\ a.kind = "all" /\ a.sent = 0
      BY <2>1, AskedServed
  <2>. HIDE DEF a
  <2>4. Due(index - 1, n, a)
    <3>. SUFFICES ASSUME NEW j \in 0 .. n - 1
                  PROVE  IsDue(a, j, index - 1 + 0 - j)
        BY <2>1, <2>3 DEF Due
    <3>1. index - 1 + 0 - j
            \in Most(0, index - Size[profile]) .. index - 1
        BY <1>2, <2>1, BufSize DEF Most
    <3>2. index - 1 + 0 - j = index - 1 - j
        BY <1>2, <2>1
    <3>. QED BY <2>3, <3>1, <3>2 DEF IsDue
  <2>5. index - 1 \in Int
      BY <1>2
  <2>. QED BY <1>1, <2>1, <2>2, <2>3, <2>4, <2>5, SendBlockInv
<1>. QED BY <1>3, <1>4

LEMMA NextBlockInv ==
    ASSUME IInv, NextBlock
    PROVE  IInv'
<1>1. Still
    BY DEF NextBlock, Still
<1>2. /\ getresp_LP_index \in Int /\ getresp_LP_len \in 1 .. LenMod - 1
      /\ asked \in Requests \cup {NoRequest}
    BY ProfileAssumption DEF NextBlock, IInv, TypeOK
<1>3. asked # NoRequest =>
         Served(asked) /\ Due(getresp_LP_index, getresp_LP_len, asked)
    BY DEF IInv, Transfer, CursorDue, Served, Due
<1>. QED BY <1>1, <1>2, <1>3, SendBlockInv DEF NextBlock

LEMMA GetOtherInv ==
    ASSUME IInv, GetOther
    PROVE  IInv'
BY EmptyInv DEF GetOther, Still

(* The entries of LP since it was last full end at the newest record.      *)
LEMMA OverlappedIs ==
    ASSUME profile = "LP", profile \in Profiles, index \in Nat, index > Size["LP"]
    PROVE  \E q \in Nat \ {0} :
              /\ Size["LP"] * q \in Nat /\ Size["LP"] * q >= Size["LP"]
              /\ index - Overlapped = Size["LP"] * q
              /\ Size["LP"] * (q - 1) = Size["LP"] * q - Size["LP"]
              /\ Overlapped \in 1 .. Size["LP"]
<1> DEFINE n == Size["LP"]
           q == (index - 1) \div n
<1>1. n \in Nat \ {0} /\ index - 1 \in Nat
    BY BufSize
<1>2. index - 1 = n * q + ((index - 1) % n) /\ q \in Nat
      /\ (index - 1) % n \in 0 .. n - 1
    BY <1>1, DivMod
<1>. HIDE DEF n, q
<1>3. q # 0
  <2>1. q = 0 => n * q = 0
      BY <1>1
  <2>. QED BY <1>1, <1>2, <2>1 DEF n
<1>4. n * q >= n /\ n * q \in Nat /\ n * (q - 1) = n * q - n
    BY <1>1, <1>2, <1>3, Multiple
<1>5. Overlapped = ((index - 1) % n) + 1
    BY DEF Overlapped, n
<1>6. index - Overlapped = n * q /\ Overlapped \in 1 .. n
    BY <1>1, <1>2, <1>4, <1>5
<1>. QED BY <1>2, <1>3, <1>4, <1>6 DEF n

(* The place of an entry of LP in a profile of its size.                   *)
LEMMA LpRangeInv ==
    ASSUME IInv, Still, profile = "LP", index > 0,
           NEW f \in Nat, NEW t \in Nat, LpRange(f, t)
    PROVE  IInv'
<1> DEFINE N == Size["LP"]
           last == Least(index, N)
           to == Clamped(t, last)
           k == IF index <= N THEN to - 1
                ELSE IF to <= Overlapped THEN index - Overlapped + to - 1
                ELSE index - Overlapped - 1 - (N - to)
           a == Asked("range", f, to)
<1>1. /\ profile \in Profiles /\ index \in Nat /\ index <= MaxIndex
      /\ MaxIndex \in Nat /\ LenMod \in Nat \ {0}
      /\ N \in Nat \ {0} /\ N < LenMod
    BY ProfileAssumption, BufSize DEF IInv, TypeOK
<1>2. /\ last \in Nat \ {0} /\ last <= index /\ last <= N
      /\ index <= N => last = index
      /\ index > N => last = N
    BY <1>1 DEF Least
<1>3. to \in 1 .. last
    BY <1>1, <1>2 DEF Clamped
<1>4. CASE f = 0 \/ f > last \/ (to < f /\ ~(index <= N /\ t > index))
    BY <1>4, <1>2, EmptyInv DEF LpRange
<1>5. CASE /\ ~(f = 0 \/ f > last)
           /\ index <= N /\ t > index
  <2> DEFINE b == Asked("range", index, index)
  <2>1. SendBlock(index - 1, 1, b)
      BY <1>5 DEF LpRange, Respond
  <2>2. /\ b \in Requests /\ b # NoRequest /\ Served(b) /\ b.n = index
        /\ b.kind = "range" /\ b.to = index /\ b.sent = 0
      BY <1>1, AskedServed
  <2>. HIDE DEF b
  <2>3. (index - 1) % N = index - 1
      BY <1>1, <1>5
  <2>4. IsDue(b, 0, index - 1)
    <3>1. index - 1 \in Most(0, index - Size[profile]) .. index - 1
        BY <1>1 DEF Most
    <3>. QED BY <1>1, <2>2, <2>3, <3>1 DEF IsDue
  <2>5. Due(index - 1, 1, b)
    <3>. SUFFICES ASSUME NEW j \in 0 .. 0
                  PROVE  IsDue(b, j, index - 1 + 0 - j)
        BY <2>2 DEF Due
    <3>1. j = 0 /\ index - 1 + 0 - j = index - 1
        BY <1>1
    <3>. QED BY <2>4, <3>1
  <2>6. index - 1 \in Int /\ 1 \in 1 .. LenMod - 1
      BY <1>1
  <2>. QED BY <2>1, <2>2, <2>5, <2>6, SendBlockInv
<1>6. CASE /\ ~(f = 0 \/ f > last)
           /\ ~(index <= N /\ t > index) /\ f <= to
  <2>1. to - f + 1 \in 1 .. LenMod - 1 /\ to - f + 1 \in Nat
      BY <1>1, <1>2, <1>3, <1>6
  <2>2. SendBlock(k, to - f + 1, a)
    <3>1. LpRange(f, t) => Respond(k, to - f + 1, a)
        BY <1>3, <1>6, <1>2 DEF LpRange
    <3>. QED BY <2>1, <3>1 DEF Respond
  <2>3. /\ a \in Requests /\ a # NoRequest /\ Served(a) /\ a.n = index
        /\ a.kind = "range" /\ a.from = f /\ a.to = to /\ a.sent = 0
      BY <1>3, AskedServed
  <2>. HIDE DEF a
  <2>4. k \in Int
      BY <1>1, <1>2, <1>3, OverlappedIs DEF Overlapped
  <2>5. Due(k, to - f + 1, a)
    <3>. SUFFICES ASSUME ~Straddles(a), NEW j \in 0 .. to - f
                  PROVE  IsDue(a, j, k - j)
        BY <1>2, <1>3, <1>6, <2>3, <2>4 DEF Due, Plain
    <3> DEFINE e == to - 1 - j
    <3>1. e \in f - 1 .. to - 1 /\ e \in 0 .. N - 1 /\ e = to - 1 - j
        BY <1>1, <1>2, <1>3, <1>6
    <3>. HIDE DEF e
    <3>2. CASE index <= N
      <4>1. k - j = e
          BY <1>3, <3>1, <3>2
      <4>2. e % N = e
          BY <1>1, <3>1
      <4>3. e \in Most(0, index - N) .. index - 1
          BY <1>1, <1>2, <1>3, <3>1, <3>2 DEF Most
      <4>. QED BY <1>1, <2>3, <3>1, <4>1, <4>2, <4>3 DEF IsDue
    <3>3. CASE index > N
      <4>1. PICK q \in Nat \ {0} :
               /\ N * q \in Nat /\ N * q >= N
               /\ index - Overlapped = N * q
               /\ N * (q - 1) = N * q - N
               /\ Overlapped \in 1 .. N
          BY <1>1, <3>3, OverlappedIs
      <4>2. CASE to <= Overlapped
        <5>1. k - j = N * q + e
            BY <1>1, <1>3, <3>1, <3>3, <4>1, <4>2
        <5>2. (N * q + e) % N = e
            BY <1>1, <3>1, <4>1, ModUnique
        <5>3. N * q + e \in Most(0, index - N) .. index - 1
            BY <1>1, <1>3, <3>1, <3>3, <4>1, <4>2 DEF Most
        <5>. QED BY <1>1, <2>3, <3>1, <5>1, <5>2, <5>3 DEF IsDue
      <4>3. CASE to > Overlapped
        <5>1. f > Overlapped
            BY <1>1, <1>2, <2>3, <3>3, <4>1, <4>3 DEF Straddles, Overlapped
        <5>2. k - j = N * (q - 1) + e
            BY <1>1, <1>3, <3>1, <3>3, <4>1, <4>3
        <5>3. (N * (q - 1) + e) % N = e
          <6>1. q - 1 \in Nat
              BY <4>1
          <6>. QED BY <1>1, <3>1, <6>1, ModUnique
        <5>4. N * (q - 1) + e \in Most(0, index - N) .. index - 1
            BY <1>1, <1>3, <3>1, <3>3, <4>1, <5>1 DEF Most
        <5>. QED BY <1>1, <2>3, <3>1, <5>2, <5>3, <5>4 DEF IsDue
      <4>. QED BY <1>1, <1>3, <4>1, <4>2, <4>3
    <3>. QED BY <1>1, <3>2, <3>3
  <2>. QED BY <2>1, <2>2, <2>3, <2>4, <2>5, SendBlockInv
<1>. QED BY <1>1, <1>3, <1>4, <1>5, <1>6

LEMMA LprtRangeInv ==
    ASSUME IInv, Still, profile = "LPRT", index > 0,
           NEW f \in Nat, NEW t \in Nat, LprtRange(f, t)
    PROVE  IInv'
<1> DEFINE last == Least(index, Size["LPRT"])
           to == Clamped(t, last)
           a == Asked("range", f, to)
<1>1. /\ profile \in Profiles /\ index \in Nat /\ index <= MaxIndex
      /\ MaxIndex \in Nat /\ LenMod \in Nat \ {0}
      /\ Size["LPRT"] \in Nat \ {0} /\ Size["LPRT"] < LenMod
    BY ProfileAssumption, BufSize DEF IInv, TypeOK
<1>2. /\ last \in Nat \ {0} /\ last <= index /\ last <= Size["LPRT"]
    BY <1>1 DEF Least
<1>3. to \in 1 .. last
    BY <1>1, <1>2 DEF Clamped
<1>4. CASE f = 0 \/ f > last \/ to < f
    BY <1>4, EmptyInv DEF LprtRange
<1>5. CASE ~(f = 0 \/ f > last \/ to < f)
  <2>1. to - f + 1 \in 1 .. LenMod - 1 /\ to - f + 1 # 0
        /\ index - f \in Int
      BY <1>1, <1>2, <1>3, <1>5
  <2>2. SendBlock(index - f, to - f + 1, a)
      BY <1>5, <2>1 DEF LprtRange, Respond
  <2>3. /\ a \in Requests /\ a # NoRequest /\ Served(a) /\ a.n = index
        /\ a.kind = "range" /\ a.from = f /\ a.to = to /\ a.sent = 0
      BY <1>3, AskedServed
  <2>. HIDE DEF a
  <2>4. Due(index - f, to - f + 1, a)
    <3>. SUFFICES ASSUME NEW j \in 0 .. to - f
                  PROVE  IsDue(a, j, index - f - j)
        BY <1>1, <1>2, <1>3, <1>5, <2>3 DEF Due
    <3>1. index - f - j \in Most(0, index - Size["LPRT"]) .. index - 1
        BY <1>1, <1>2, <1>3, <1>5 DEF Most
    <3>. QED BY <2>3, <3>1 DEF IsDue
  <2>. QED BY <2>1, <2>2, <2>3, <2>4, SendBlockInv
<1>. QED BY <1>4, <1>5

LEMMA LpavgRangeInv ==
    ASSUME IInv, Still, profile = "LPAVG", index > 0,
           NEW f \in Nat, NEW t \in Nat, LpavgRange(f, t)
    PROVE  IInv'
<1> DEFINE last == Least(index, Size["LPAVG"])
           len == IF t = 0 THEN last ELSE (t - f + 1) % LenMod
           a == Asked("range", f, t)
<1>1. /\ profile \in Profiles /\ index \in Nat /\ index <= MaxIndex
      /\ MaxIndex \in Nat /\ LenMod \in Nat \ {0}
      /\ Size["LPAVG"] \in Nat \ {0} /\ Size["LPAVG"] < LenMod
    BY ProfileAssumption, BufSize DEF IInv, TypeOK
<1>2. /\ last \in Nat \ {0} /\ last <= index /\ last <= Size["LPAVG"]
    BY <1>1 DEF Least
<1>3. len \in 0 .. LenMod - 1
  <2>1. (t - f + 1) % LenMod \in 0 .. LenMod - 1
      BY <1>1
  <2>. QED BY <1>1, <1>2, <2>1
<1>4. CASE f = 0 \/ f > last \/ len = 0
    BY <1>4, EmptyInv DEF LpavgRange, Respond
<1>5. CASE ~(f = 0 \/ f > last \/ len = 0)
  <2>1. SendBlock(index - f, len, a)
      BY <1>5 DEF LpavgRange, Respond
  <2>2. len \in 1 .. LenMod - 1 /\ index - f \in Int
      BY <1>1, <1>3, <1>5
  <2>3. /\ a \in Requests /\ a # NoRequest /\ Served(a) /\ a.n = index
        /\ a.kind = "range" /\ a.from = f /\ a.to = t /\ a.sent = 0
      BY AskedServed
  <2>. HIDE DEF a
  <2>4. Due(index - f, len, a)
    <3>. SUFFICES ASSUME ~Unlimited(a)
                  PROVE  \A j \in 0 .. len - 1 : IsDue(a, j, index - f - j)
        BY <1>1, <2>2, <2>3 DEF Due, Plain
    <3>1. t \in f .. last
        BY <1>1, <2>3 DEF Unlimited
    <3>2. len = t - f + 1
      <4>1. t - f + 1 \in 0 .. LenMod - 1 /\ t # 0
          BY <1>1, <1>2, <1>5, <3>1
      <4>2. (t - f + 1) % LenMod = t - f + 1
          BY <1>1, <4>1
      <4>. QED BY <4>1, <4>2
    <3>. HIDE DEF len
    <3>. TAKE j \in 0 .. len - 1
    <3>3. index - f - j \in Most(0, index - Size["LPAVG"]) .. index - 1
        BY <1>1, <1>2, <1>5, <3>1, <3>2 DEF Most
    <3>. QED BY <2>3, <3>3 DEF IsDue
  <2>. QED BY <2>1, <2>2, <2>3, <2>4, SendBlockInv
<1>. QED BY <1>4, <1>5

LEMMA GetRangeInv ==
    ASSUME IInv, GetRange
    PROVE  IInv'
<1>1. Still /\ index > 0
    BY DEF GetRange, Still
<1>2. PICK f \in Entries, t \in Entries :
         \/ profile = "LP" /\ LpRange(f, t)
         \/ profile = "LPRT" /\ LprtRange(f, t)
         \/ profile = "LPAVG" /\ LpavgRange(f, t)
    BY DEF GetRange
<1>3. f \in Nat /\ t \in Nat
    BY ProfileAssumption
<1>. QED BY <1>1, <1>2, <1>3, LpRangeInv, LprtRangeInv, LpavgRangeInv

-----------------------------------------------------------------------------
(* The theorems. *)

LEMMA StutterInv ==
    ASSUME IInv, UNCHANGED vars
    PROVE  IInv'
<1>. USE DEF vars, ringVars, nvVars, powerVars, cursorVars
<1>1. Buf' = Buf /\ Anew' = Anew /\ \A k : Good(k)' = Good(k)
    BY DEF Buf, Anew, Ram, Good, Slot
<1>2. TypeOK' /\ Power' /\ Held'
    BY <1>1 DEF IInv, TypeOK, Power, Held
<1>3. Transfer' /\ CursorDue'
    BY <1>1 DEF IInv, Transfer, CursorDue, Plain, Straddles, Unlimited, IsDue
<1>4. BlockIsDue'
    BY DEF IInv, BlockIsDue, Straddles, Unlimited, IsDue
<1>. QED BY <1>2, <1>3, <1>4 DEF IInv

LEMMA StepInv ==
    ASSUME IInv, [Next]_vars
    PROVE  IInv'
BY SaveInv, BackupInv, MainsInv, SagDetectInv, RestartInv,
   FirmwareRestartInv, PowerReturnInv, ClearInv, GetInv, GetRangeInv,
   NextBlockInv, GetOtherInv, StutterInv DEF Next

LEMMA Inductive == Spec => []IInv
<1>1. Init => IInv
    BY InitInv
<1>2. IInv /\ [Next]_vars => IInv'
    BY StepInv
<1>. QED BY <1>1, <1>2, PTL DEF Spec

(* The counter, the flags and the cursor stay in their types; the length   *)
(* of a transfer fits in its 16 bits (get_req.c, getresp_LP_len).          *)
THEOREM TypeCorrect == Spec => []TypeOK
<1>1. IInv => TypeOK
    BY DEF IInv
<1>. QED BY <1>1, Inductive, PTL

(* The newest records, as many as the profile holds, are never written     *)
(* over and never taken back by a restart (LP_save, mt_data_restore).      *)
THEOREM WindowCorrect == Spec => []WindowHeld
<1>1. IInv => WindowHeld
    BY HeldIsWindow
<1>. QED BY <1>1, Inductive, PTL

(* A transfer in blocks gives the records due for its request in their     *)
(* order (ob_load_profile, ob_lpavg, ob_realtime_p_load_profile), but for  *)
(* the ranges that BlockIsDue names.                                       *)
THEOREM BlockCorrect == Spec => []BlockIsDue
<1>1. IInv => BlockIsDue
    BY DEF IInv
<1>. QED BY <1>1, Inductive, PTL

(* A power failure costs none of the records saved before it was first     *)
(* seen (sag_detect_proc, ac_power_polling_check).                         *)
THEOREM SagCorrect == Spec => []SagKeepsRecords
<1>1. IInv => SagKeepsRecords
    BY DEF IInv, Power, SagKeepsRecords
<1>. QED BY <1>1, Inductive, PTL
=============================================================================
