--------------------------- MODULE DevicesProofs ----------------------------
(***************************************************************************)
(* Proofs about Devices, for any number of users, addresses, tokens and    *)
(* calls in flight, and any lifetimes.                                     *)
(***************************************************************************)
EXTENDS Devices, TLAPS

-----------------------------------------------------------------------------
(* The strengthening that makes the properties inductive.                  *)

\* What a call has established at each await.
FrameOK(f, R, D) ==
  /\ f.op # "none" /\ f.ip \in Ips
  /\ f.pc # "find" => f.user \in Users
  /\ f.op = "rotate" => f.ref \in RefreshTokens
  /\ f.op # "rotate" => f.pc \notin {"find", "expire", "spend", "findU"}
  /\ f.op = "rotate" =>
       f.pc \in {"find", "expire", "spend", "findU", "create", "reply", "theft", "deny", "notify"}
  /\ f.pc = "enable" => f.user \notin Tenanted
  /\ f.pc = "device" => f.dev \in DeviceTokens
  /\ f.op = "rotate" /\ f.pc # "find" =>
       R[f.ref] # None /\ R[f.ref].user = f.user
  /\ f.op = "rotate" /\ f.pc \in {"spend", "findU"} =>
       R[f.ref].ip = f.ip /\ R[f.ref].two = f.two
  /\ f.pc = "create" /\ f.two => HasDevice(f.user, f.ip, D)
  /\ f.pc \in {"theft", "deny"} /\ f.op # "alarm" => Elsewhere(f, R, D)

\* A spent token stays spent: the call has still to look it up.
SpentOK(f, R) ==
  /\ f.ref \in RefreshTokens /\ R[f.ref] # None /\ ~R[f.ref].valid
  /\ f.pc = "find"

FramesOK ==
  /\ \A p \in InFlight : FrameOK(frame[p], rows, devices)
  /\ \A p \in Calls : frame[p].spent => SpentOK(frame[p], rows)

IInv == TypeOK /\ FramesOK /\ TwoFactorHasDevice

-----------------------------------------------------------------------------
StoreOK ==
  /\ now \in Nat /\ twoFactor \subseteq Users \ Tenanted
  /\ rows \in [RefreshTokens -> Row \cup {None}]
  /\ devices \in [DeviceTokens -> Device \cup {None}]
  /\ denied \subseteq Ips

\* Rows are never deleted, keep their user, their address and the login they
\* go back to, and are never made valid again; devices are never changed.
RowsKept(R1, R2) ==
  \A r \in RefreshTokens : R1[r] # None =>
    /\ R2[r] # None /\ R2[r].user = R1[r].user /\ R2[r].ip = R1[r].ip
    /\ R2[r].two = R1[r].two
    /\ ~R1[r].valid => ~R2[r].valid
DevicesKept(D1, D2) == \A d \in DeviceTokens : D1[d] # None => D2[d] = D1[d]

\* A row that is new and goes back to a login with two-factor belongs to a user
\* with a device at its address.
NewRowsOK(R1, R2, D) ==
  \A r \in RefreshTokens :
    R1[r] = None /\ R2[r] # None /\ R2[r].two => HasDevice(R2[r].user, R2[r].ip, D)

\* What a call has established stays true while others move.
LEMMA FrameKept ==
  ASSUME NEW f \in Frame, NEW R1, NEW R2, NEW D1, NEW D2,
         RowsKept(R1, R2), DevicesKept(D1, D2)
  PROVE  /\ FrameOK(f, R1, D1) => FrameOK(f, R2, D2)
         /\ SpentOK(f, R1) => SpentOK(f, R2)
         /\ \A u, i : HasDevice(u, i, D1) => HasDevice(u, i, D2)
<1>1. \A u, i : HasDevice(u, i, D1) => HasDevice(u, i, D2)
  BY DEF HasDevice, DevicesKept
<1>2. Elsewhere(f, R1, D1) => Elsewhere(f, R2, D2)
  BY DEF Elsewhere, RowsKept, DevicesKept
<1>3. FrameOK(f, R1, D1) => FrameOK(f, R2, D2)
  BY <1>1, <1>2 DEF FrameOK, RowsKept
<1>4. SpentOK(f, R1) => SpentOK(f, R2)
  BY DEF SpentOK, RowsKept
<1> QED BY <1>1, <1>3, <1>4

\* A step is judged by the tables and the frame it leaves behind.
LEMMA Moves ==
  ASSUME IInv, NEW p \in Calls, NEW g \in Frame, frame' = [frame EXCEPT ![p] = g],
         StoreOK', RowsKept(rows, rows'), DevicesKept(devices, devices'),
         NewRowsOK(rows, rows', devices'),
         g.pc \notin {"new", "done"} => FrameOK(g, rows', devices'),
         g.spent => SpentOK(g, rows')
  PROVE  IInv'
<1>1. frame \in [Calls -> Frame] /\ frame' \in [Calls -> Frame]
  BY DEF IInv, TypeOK
<1>2. ASSUME NEW q \in Calls
      PROVE  /\ frame'[q].pc \notin {"new", "done"} => FrameOK(frame'[q], rows', devices')
             /\ frame'[q].spent => SpentOK(frame'[q], rows')
  <2>1. CASE q = p
    BY <1>1, <2>1
  <2>2. CASE q # p
    <3>1. frame[q] \in Frame /\ frame'[q] = frame[q]
      BY <1>1, <2>2
    <3>2. /\ frame[q].pc \notin {"new", "done"} => FrameOK(frame[q], rows, devices)
          /\ frame[q].spent => SpentOK(frame[q], rows)
      BY DEF IInv, FramesOK, InFlight
    <3> QED BY <3>1, <3>2, FrameKept
  <2> QED BY <2>1, <2>2
<1>3. FramesOK'
  BY <1>2 DEF FramesOK, InFlight
<1>4. TwoFactorHasDevice'
  <2>1. \A u, i : HasDevice(u, i, devices) => HasDevice(u, i, devices')
    BY DEF HasDevice, DevicesKept
  <2>2. ASSUME NEW r \in RefreshTokens, rows'[r] # None, rows'[r].two
        PROVE  HasDevice(rows'[r].user, rows'[r].ip, devices')
    <3>1. CASE rows[r] = None
      BY <2>2, <3>1 DEF NewRowsOK
    <3>2. CASE rows[r] # None
      <4>1. /\ rows'[r].user = rows[r].user /\ rows'[r].ip = rows[r].ip
            /\ rows'[r].two = rows[r].two
        BY <3>2 DEF RowsKept
      <4>2. HasDevice(rows[r].user, rows[r].ip, devices)
        BY <2>2, <3>2, <4>1 DEF IInv, TwoFactorHasDevice
      <4> QED BY <2>1, <4>1, <4>2
    <3> QED BY <3>1, <3>2
  <2> QED BY <2>2 DEF TwoFactorHasDevice
<1> QED BY <1>1, <1>3, <1>4 DEF IInv, TypeOK, StoreOK

\* A step that leaves the tables alone.
LEMMA QuietMoves ==
  ASSUME IInv, NEW p \in Calls, NEW g \in Frame, frame' = [frame EXCEPT ![p] = g],
         UNCHANGED <<now, rows, devices>>, denied' \subseteq Ips,
         twoFactor' \subseteq Users \ Tenanted,
         g.pc \notin {"new", "done"} => FrameOK(g, rows, devices), g.spent => SpentOK(g, rows)
  PROVE  IInv'
<1>1. StoreOK' /\ RowsKept(rows, rows') /\ DevicesKept(devices, devices')
  BY DEF IInv, TypeOK, StoreOK, RowsKept, DevicesKept
<1>2. NewRowsOK(rows, rows', devices')
  BY DEF NewRowsOK
<1>3. /\ g.pc \notin {"new", "done"} => FrameOK(g, rows', devices')
      /\ g.spent => SpentOK(g, rows')
  OBVIOUS
<1> QED BY <1>1, <1>2, <1>3, Moves

\* A step that only makes rows invalid.
LEMMA InvalidMoves ==
  ASSUME IInv, NEW p \in Calls, NEW g \in Frame, frame' = [frame EXCEPT ![p] = g],
         UNCHANGED <<now, twoFactor, devices, denied>>,
         rows' \in [RefreshTokens -> Row \cup {None}],
         \A r \in RefreshTokens :
           \/ rows'[r] = rows[r]
           \/ rows[r] # None /\ rows'[r] = [rows[r] EXCEPT !.valid = FALSE],
         g.pc \notin {"new", "done"} => FrameOK(g, rows, devices), ~g.spent
  PROVE  IInv'
<1>1. StoreOK'
  BY DEF IInv, TypeOK, StoreOK
<1>2. RowsKept(rows, rows') /\ DevicesKept(devices, devices')
  <2>1. ASSUME NEW r \in RefreshTokens, rows[r] # None
        PROVE  /\ rows'[r] # None /\ rows'[r].user = rows[r].user /\ rows'[r].ip = rows[r].ip
               /\ rows'[r].two = rows[r].two
               /\ ~rows[r].valid => ~rows'[r].valid
    <3>1. rows[r] \in Row /\ [rows[r] EXCEPT !.valid = FALSE] \in Row
      BY <2>1 DEF IInv, TypeOK, Row
    <3> QED BY <2>1, <3>1, NoRowAssumption DEF Row
  <2> QED BY <2>1 DEF RowsKept, DevicesKept
<1>3. NewRowsOK(rows, rows', devices')
  BY DEF NewRowsOK
<1>4. g.pc \notin {"new", "done"} => FrameOK(g, rows', devices')
  BY <1>2, FrameKept
<1> QED BY <1>1, <1>2, <1>3, <1>4, Moves

\* updateMany on isValid, as InvalidMoves wants it.
LEMMA InvalidatedRows ==
  ASSUME IInv, NEW u
  PROVE  /\ Invalidated(u) \in [RefreshTokens -> Row \cup {None}]
         /\ \A r \in RefreshTokens :
              \/ Invalidated(u)[r] = rows[r]
              \/ rows[r] # None /\ Invalidated(u)[r] = [rows[r] EXCEPT !.valid = FALSE]
<1>1. ASSUME NEW r \in RefreshTokens, rows[r] # None
      PROVE  [rows[r] EXCEPT !.valid = FALSE] \in Row
  BY <1>1 DEF IInv, TypeOK, Row
<1>2. \A r \in RefreshTokens : rows[r] \in Row \cup {None}
  BY DEF IInv, TypeOK
<1> QED BY <1>1, <1>2 DEF Invalidated

\* update({ isValid: false }) of one row.
LEMMA SpentRow ==
  ASSUME IInv, NEW s \in RefreshTokens, rows[s] # None
  PROVE  LET R == [rows EXCEPT ![s].valid = FALSE]
         IN /\ R \in [RefreshTokens -> Row \cup {None}]
            /\ \A r \in RefreshTokens :
                 \/ R[r] = rows[r]
                 \/ rows[r] # None /\ R[r] = [rows[r] EXCEPT !.valid = FALSE]
<1>1. rows[s] \in Row /\ [rows[s] EXCEPT !.valid = FALSE] \in Row
  BY DEF IInv, TypeOK, Row
<1>2. rows \in [RefreshTokens -> Row \cup {None}]
  BY DEF IInv, TypeOK
<1> QED BY <1>1, <1>2

\* The frame of a call that ended asks for nothing.
LEMMA DoneFrame == Blank("done") \in Frame /\ Blank("done").pc = "done" /\ ~Blank("done").spent
  BY DEF Blank, Frame, Pcs

\* A call that ends.
LEMMA DropMoves ==
  ASSUME IInv, NEW p \in Calls, Drop(p), UNCHANGED <<now, twoFactor, rows, devices, denied>>
  PROVE  IInv'
<1>1. /\ frame' = [frame EXCEPT ![p] = Blank("done")] /\ denied' \subseteq Ips
      /\ twoFactor' \subseteq Users \ Tenanted
  BY DEF Drop, IInv, TypeOK
<1> QED BY <1>1, DoneFrame, QuietMoves

\* What IInv says of one call in flight.
LEMMA CallFacts ==
  ASSUME IInv, NEW p \in Calls, frame[p].pc \notin {"new", "done"}
  PROVE  /\ frame \in [Calls -> Frame] /\ frame[p] \in Frame /\ now \in Nat
         /\ FrameOK(frame[p], rows, devices)
         /\ frame[p].pc # "find" => ~frame[p].spent
         /\ frame[p].op \in {"login", "otp", "enable", "rotate", "alarm", "none"}
  BY DEF IInv, TypeOK, FramesOK, InFlight, SpentOK, Frame
-----------------------------------------------------------------------------
(* One lemma per group of actions.                                         *)

\* A login, an enabling of two-factor or a theft alarm arrives.
LEMMA LoginArrives ==
  ASSUME IInv, NEW p \in Calls,
         Login(p) \/ LoginTwoFactor(p) \/ VerifyTwoFactorOtp(p) \/ RefreshAlarm(p)
  PROVE  IInv'
<1>1. twoFactor \subseteq Users \ Tenanted /\ now \in Nat
  BY DEF IInv, TypeOK
<1>2. /\ UNCHANGED <<now, rows, devices>> /\ denied' \subseteq Ips
      /\ twoFactor' \subseteq Users \ Tenanted
  BY DEF Login, LoginTwoFactor, VerifyTwoFactorOtp, RefreshAlarm, IInv, TypeOK
<1>3. ASSUME NEW op \in {"login", "otp", "enable", "alarm"},
             NEW pc \in {"inval", "register", "enable", "theft"}, NEW u \in Users, NEW ip \in Ips,
             NEW d \in DeviceTokens \cup {None}, NEW two \in BOOLEAN,
             Call(p, NewFrame(op, pc, u, ip, d, None, two, FALSE)),
             pc = "enable" => u \notin Tenanted, pc = "theft" => op = "alarm"
      PROVE  IInv'
  <2> DEFINE g == NewFrame(op, pc, u, ip, d, None, two, FALSE)
  <2>1. g \in Frame /\ FrameOK(g, rows, devices) /\ ~g.spent
    BY <1>1, <1>3 DEF NewFrame, Frame, Pcs, FrameOK
  <2>2. frame' = [frame EXCEPT ![p] = g]
    BY <1>3 DEF Call
  <2> HIDE DEF g
  <2> QED BY <1>2, <2>1, <2>2, QuietMoves
<1>4. CASE Login(p)
  <2>1. PICK u \in Users, ip \in Ips, d \in DeviceTokens \cup {None} :
          Call(p, NewFrame("login", "inval", u, ip, d, None, u \in twoFactor, FALSE))
    BY <1>4 DEF Login
  <2>2. (u \in twoFactor) \in BOOLEAN
    OBVIOUS
  <2> QED BY <1>3, <2>1, <2>2
<1>5. CASE LoginTwoFactor(p)
  BY <1>1, <1>3, <1>5 DEF LoginTwoFactor
<1>6. CASE VerifyTwoFactorOtp(p)
  BY <1>3, <1>6 DEF VerifyTwoFactorOtp
<1>7. CASE RefreshAlarm(p)
  BY <1>3, <1>7 DEF RefreshAlarm
<1> QED BY <1>4, <1>5, <1>6, <1>7

\* refreshTokens is called; a token spent by now is noted.
LEMMA RotateArrives ==
  ASSUME IInv, NEW p \in Calls, RefreshTokensCall(p)
  PROVE  IInv'
<1>1. PICK r \in RefreshTokens, ip \in Ips, s \in BOOLEAN :
        /\ frame' = [frame EXCEPT ![p] = NewFrame("rotate", "find", None, ip, None, r, FALSE, s)]
        /\ s => InRoot(r) /\ ~rows[r].valid
  <2>1. PICK r \in RefreshTokens, ip \in Ips :
          frame' = [frame EXCEPT ![p] = NewFrame("rotate", "find", None, ip, None, r, FALSE,
                                                 InRoot(r) /\ ~rows[r].valid)]
    BY DEF RefreshTokensCall, Call
  <2>2. PICK s \in BOOLEAN : s = (InRoot(r) /\ ~rows[r].valid)
    OBVIOUS
  <2> QED BY <2>1, <2>2
<1> DEFINE g == NewFrame("rotate", "find", None, ip, None, r, FALSE, s)
<1>2. now \in Nat
  BY DEF IInv, TypeOK
<1>3. g \in Frame /\ FrameOK(g, rows, devices)
  BY <1>2 DEF NewFrame, Frame, Pcs, FrameOK
<1>4. g.spent => SpentOK(g, rows)
  BY <1>1 DEF NewFrame, SpentOK, InRoot
<1>5. /\ UNCHANGED <<now, rows, devices>> /\ denied' \subseteq Ips
      /\ twoFactor' \subseteq Users \ Tenanted
  BY DEF RefreshTokensCall, IInv, TypeOK
<1> HIDE DEF g
<1> QED BY <1>1, <1>3, <1>4, <1>5, QuietMoves DEF g

\* revokeRefreshToken.
LEMMA RevokeMoves ==
  ASSUME IInv, NEW p \in Calls, RevokeRefreshToken(p)
  PROVE  IInv'
<1>1. PICK s \in RefreshTokens : rows[s] # None /\ rows' = [rows EXCEPT ![s].valid = FALSE]
  BY DEF RevokeRefreshToken, InRoot
<1>2. /\ frame' = [frame EXCEPT ![p] = Blank("done")]
      /\ UNCHANGED <<now, twoFactor, devices, denied>>
  BY DEF RevokeRefreshToken, Drop
<1>3. /\ rows' \in [RefreshTokens -> Row \cup {None}]
      /\ \A r \in RefreshTokens :
           \/ rows'[r] = rows[r]
           \/ rows[r] # None /\ rows'[r] = [rows[r] EXCEPT !.valid = FALSE]
  BY <1>1, SpentRow
<1> QED BY <1>2, <1>3, DoneFrame, InvalidMoves

\* Past the lookup of the refresh token a call's token was not spent.
LEMMA Onward ==
  ASSUME IInv, NEW p \in Calls, frame[p].pc \notin {"new", "done", "find"}
  PROVE  frame[p] \in Frame /\ ~frame[p].spent
  BY CallFacts DEF Frame

\* The frame of a step that keeps its locals.
LEMMA GotoFrame ==
  ASSUME IInv, NEW p \in Calls, NEW pc \in Pcs, Goto(p, pc) \/ GotoNow(p, pc)
  PROVE  \E t \in Nat : frame' = [frame EXCEPT ![p] = [frame[p] EXCEPT !.pc = pc, !.at = t]]
<1>1. frame \in [Calls -> Frame] /\ frame[p] \in Frame /\ now \in Nat
  BY DEF IInv, TypeOK
<1>2. CASE GotoNow(p, pc)
  BY <1>1, <1>2 DEF GotoNow
<1>3. CASE Goto(p, pc)
  <2>1. frame[p].at \in Nat
    BY <1>1 DEF Frame
  <2>2. [frame[p] EXCEPT !.pc = pc, !.at = frame[p].at] = [frame[p] EXCEPT !.pc = pc]
    BY <1>1 DEF Frame
  <2>3. frame' = [frame EXCEPT ![p] = [frame[p] EXCEPT !.pc = pc]]
    BY <1>3 DEF Goto
  <2> QED BY <2>1, <2>2, <2>3
<1> QED BY <1>2, <1>3

\* The invalidations: before a login, on a theft, on an expired token, and of
\* the token being rotated.
LEMMA InvalidationMoves ==
  ASSUME IInv, NEW p \in Calls,
         InvalidateRefresh(p) \/ TheftInvalidate(p) \/ ExpireAll(p) \/ Spend(p)
  PROVE  IInv'
<1>1. /\ frame[p].pc \in {"inval", "theft", "expire", "spend"}
      /\ UNCHANGED <<now, twoFactor, devices, denied>>
  BY DEF InvalidateRefresh, TheftInvalidate, ExpireAll, Spend, At
<1>2. FrameOK(frame[p], rows, devices) /\ ~frame[p].spent
  BY <1>1, CallFacts DEF FrameOK
<1>3. /\ rows' \in [RefreshTokens -> Row \cup {None}]
      /\ \A r \in RefreshTokens :
           \/ rows'[r] = rows[r]
           \/ rows[r] # None /\ rows'[r] = [rows[r] EXCEPT !.valid = FALSE]
  <2>1. CASE Spend(p)
    <3>1. frame[p].pc = "spend"
      BY <2>1 DEF Spend, At
    <3>2. frame[p].ref \in RefreshTokens /\ rows[frame[p].ref] # None
      BY <1>2, <3>1 DEF FrameOK
    <3>3. rows' = [rows EXCEPT ![frame[p].ref].valid = FALSE]
      BY <2>1 DEF Spend
    <3> QED BY <3>2, <3>3, SpentRow
  <2>2. CASE ~Spend(p)
    <3>1. rows' = Invalidated(frame[p].user)
      BY <2>2 DEF InvalidateRefresh, TheftInvalidate, ExpireAll
    <3> QED BY <3>1, InvalidatedRows
  <2> QED BY <2>1, <2>2
<1>4. CASE ExpireAll(p)
  BY <1>1, <1>3, <1>4, DoneFrame, InvalidMoves DEF ExpireAll, Drop
<1>5. ASSUME NEW pc \in {"cache", "deny", "findU"}, Goto(p, pc),
             \/ frame[p].pc = "inval" /\ pc = "cache"
             \/ frame[p].pc = "theft" /\ pc = "deny"
             \/ frame[p].pc = "spend" /\ pc = "findU"
      PROVE  IInv'
  <2>1. pc \in Pcs
    BY DEF Pcs
  <2>2. PICK t \in Nat : frame' = [frame EXCEPT ![p] = [frame[p] EXCEPT !.pc = pc, !.at = t]]
    BY <1>5, <2>1, GotoFrame
  <2> DEFINE g == [frame[p] EXCEPT !.pc = pc, !.at = t]
  <2>3. /\ g \in Frame /\ g.pc = pc /\ g.op = frame[p].op /\ g.user = frame[p].user
        /\ g.ip = frame[p].ip /\ g.dev = frame[p].dev /\ g.ref = frame[p].ref /\ ~g.spent
        /\ g.two = frame[p].two
    <3>1. frame[p] \in Frame /\ ~frame[p].spent
      BY <1>1, <1>5, Onward
    <3> QED BY <2>1, <3>1 DEF Frame
  <2> HIDE DEF g
  <2>4. FrameOK(g, rows, devices)
    BY <1>2, <1>5, <2>3 DEF FrameOK, Elsewhere
  <2> QED BY <1>1, <1>3, <2>2, <2>3, <2>4, InvalidMoves DEF g
<1> QED BY <1>1, <1>4, <1>5 DEF InvalidateRefresh, TheftInvalidate, Spend, At

\* The steps that leave the tables alone and keep the locals.
LEMMA WalkMoves ==
  ASSUME IInv, NEW p \in Calls,
         \/ ClearCaches(p) \/ FindDevice(p) \/ EnableTwoFactor(p) \/ Reply(p) \/ TheftDeny(p)
         \/ TheftNotify(p) \/ FindUser(p) \/ Fail(p)
  PROVE  IInv'
<1>1. /\ UNCHANGED <<now, rows, devices>> /\ frame[p].pc \notin {"new", "done"}
      /\ ~Fail(p) => frame[p].pc # "find"
  BY DEF ClearCaches, FindDevice, EnableTwoFactor, Reply, TheftDeny, TheftNotify, FindUser,
     Fail, At, InFlight
<1>2. /\ FrameOK(frame[p], rows, devices)
      /\ frame[p].pc # "find" => ~frame[p].spent
  BY <1>1, CallFacts DEF FrameOK
<1>3. denied' \subseteq Ips /\ twoFactor' \subseteq Users \ Tenanted
  BY <1>2 DEF ClearCaches, FindDevice, EnableTwoFactor, Reply, TheftDeny, TheftNotify, FindUser,
     Fail, At, IInv, TypeOK, FrameOK
<1>4. CASE Drop(p)
  BY <1>1, <1>3, <1>4, DoneFrame, QuietMoves DEF Drop
<1>5. ASSUME NEW pc \in {"create", "device", "newdev", "theft", "notify", "register"},
             Goto(p, pc) \/ GotoNow(p, pc), frame[p].pc # "find",
             frame[p].op = "rotate" => pc \in {"create", "notify"},
             pc = "device" => frame[p].dev \in DeviceTokens,
             pc = "create" /\ frame[p].two => HasDevice(frame[p].user, frame[p].ip, devices),
             pc = "theft" => Elsewhere(frame[p], rows, devices)
      PROVE  IInv'
  <2>1. pc \in Pcs
    BY DEF Pcs
  <2>2. PICK t \in Nat : frame' = [frame EXCEPT ![p] = [frame[p] EXCEPT !.pc = pc, !.at = t]]
    BY <1>5, <2>1, GotoFrame
  <2> DEFINE g == [frame[p] EXCEPT !.pc = pc, !.at = t]
  <2>3. /\ g \in Frame /\ g.pc = pc /\ g.op = frame[p].op /\ g.user = frame[p].user
        /\ g.ip = frame[p].ip /\ g.dev = frame[p].dev /\ g.ref = frame[p].ref /\ ~g.spent
        /\ g.two = frame[p].two
    <3>1. frame[p] \in Frame /\ ~frame[p].spent
      BY <1>1, <1>5, Onward
    <3> QED BY <2>1, <3>1 DEF Frame
  <2> HIDE DEF g
  <2>4. FrameOK(g, rows, devices)
    BY <1>2, <1>5, <2>3 DEF FrameOK, Elsewhere
  <2> QED BY <1>1, <1>3, <2>2, <2>3, <2>4, QuietMoves DEF g
<1>6. CASE ClearCaches(p)
  <2>1. frame[p].pc = "cache" /\ frame[p].op # "rotate" /\ frame[p].dev \in DeviceTokens \cup {None}
    BY <1>2, <1>6, CallFacts DEF ClearCaches, At, FrameOK, Frame
  <2> QED BY <1>4, <1>5, <1>6, <2>1 DEF ClearCaches
<1>7. CASE FindDevice(p)
  <2>1. frame[p].pc = "device" /\ frame[p].op # "rotate" /\ frame[p].dev \in DeviceTokens
    BY <1>2, <1>7 DEF FindDevice, At, FrameOK
  <2> DEFINE d == devices[frame[p].dev]
  <2>2. d # None /\ d.ip # frame[p].ip => Elsewhere(frame[p], rows, devices)
    BY <2>1 DEF Elsewhere
  <2>3. d # None /\ d.ip = frame[p].ip /\ d.user = frame[p].user =>
          HasDevice(frame[p].user, frame[p].ip, devices)
    BY <2>1 DEF HasDevice
  <2> QED BY <1>4, <1>5, <1>7, <2>1, <2>2, <2>3 DEF FindDevice
<1>8. CASE FindUser(p)
  <2>1. frame[p].pc = "findU" /\ frame[p].op = "rotate"
    BY <1>2, <1>8 DEF FindUser, At, FrameOK
  <2>2. /\ frame[p].ref \in RefreshTokens /\ rows[frame[p].ref] # None
        /\ rows[frame[p].ref].user = frame[p].user /\ rows[frame[p].ref].ip = frame[p].ip
        /\ rows[frame[p].ref].two = frame[p].two
    BY <1>2, <2>1 DEF FrameOK
  <2>3. frame[p].two => HasDevice(frame[p].user, frame[p].ip, devices)
    BY <2>2 DEF IInv, TwoFactorHasDevice
  <2> QED BY <1>5, <1>8, <2>1, <2>3 DEF FindUser
<1>9. CASE TheftDeny(p)
  BY <1>5, <1>9 DEF TheftDeny, At
<1>10. CASE EnableTwoFactor(p)
  <2>1. frame[p].pc = "enable" /\ frame[p].op # "rotate"
    BY <1>2, <1>10 DEF EnableTwoFactor, At, FrameOK
  <2> QED BY <1>5, <1>10, <2>1 DEF EnableTwoFactor
<1> QED BY <1>4, <1>6, <1>7, <1>8, <1>9, <1>10 DEF Reply, TheftNotify, Fail

\* refreshToken.findUnique: the call learns whose token it presents.
LEMMA FindTokenMoves ==
  ASSUME IInv, NEW p \in Calls, FindToken(p)
  PROVE  IInv'
<1> DEFINE f == frame[p]
           r == frame[p].ref
<1>1. f.pc = "find" /\ UNCHANGED <<now, twoFactor, rows, devices, denied>>
  BY DEF FindToken, At
<1>2. f \in Frame /\ FrameOK(f, rows, devices) /\ frame \in [Calls -> Frame]
  BY <1>1, CallFacts
<1>3. f.op = "rotate" /\ r \in RefreshTokens /\ f.ip \in Ips
  BY <1>1, <1>2 DEF FrameOK, Frame
<1>4. CASE Drop(p)
  BY <1>1, <1>4, DropMoves
<1>5. CASE ~Drop(p)
  <2>1. InRoot(r) /\ rows[r].valid
    BY <1>5 DEF FindToken
  <2>2. rows[r] # None /\ rows[r] \in Row /\ rows[r].user \in Users /\ rows[r].two \in BOOLEAN
    BY <1>3, <2>1 DEF InRoot, IInv, TypeOK, Row
  <2>3. ~f.spent
    BY <2>1 DEF IInv, FramesOK, SpentOK
  <2>4. PICK pc \in {"expire", "theft", "spend"} :
          /\ frame' = [frame EXCEPT ![p].pc = pc, ![p].user = rows[r].user,
                                    ![p].two = rows[r].two]
          /\ pc = "theft" => rows[r].ip # f.ip
          /\ pc = "spend" => rows[r].ip = f.ip
    BY <1>5 DEF FindToken, Owner
  <2> DEFINE g == [f EXCEPT !.pc = pc, !.user = rows[r].user, !.two = rows[r].two]
  <2>5. frame' = [frame EXCEPT ![p] = g]
    BY <2>4
  <2>6. /\ g \in Frame /\ g.pc = pc /\ g.op = "rotate" /\ g.user = rows[r].user /\ g.ip = f.ip
        /\ g.dev = f.dev /\ g.ref = r /\ ~g.spent /\ g.two = rows[r].two
    BY <1>2, <1>3, <2>2, <2>3 DEF Frame, Pcs
  <2> HIDE DEF g, f, r
  <2>7. FrameOK(g, rows, devices)
    BY <1>3, <2>2, <2>4, <2>6 DEF FrameOK, Elsewhere
  <2>8. denied' \subseteq Ips /\ twoFactor' \subseteq Users \ Tenanted
    BY <1>1 DEF IInv, TypeOK
  <2> QED BY <1>1, <2>5, <2>6, <2>7, <2>8, QuietMoves
<1> QED BY <1>4, <1>5

\* trustedDevice.create, in a login, in the two-factor login and on enabling.
LEMMA DeviceMoves ==
  ASSUME IInv, NEW p \in Calls, CreateDevice(p) \/ RegisterDevice(p)
  PROVE  IInv'
<1>1. frame[p].pc \in {"newdev", "register"} /\ UNCHANGED <<now, twoFactor, rows, denied>>
  BY DEF CreateDevice, RegisterDevice, At
<1>2. /\ frame[p] \in Frame /\ FrameOK(frame[p], rows, devices) /\ frame[p].op # "rotate"
      /\ frame[p].user \in Users /\ frame[p].ip \in Ips /\ frame[p].at \in Nat
  BY <1>1, CallFacts DEF FrameOK, Frame
<1>3. PICK d \in DeviceTokens : devices[d] = None /\ devices' = Registered(p, d)
  BY DEF CreateDevice, RegisterDevice
<1> DEFINE e == [user |-> frame[p].user, ip |-> frame[p].ip, exp |-> frame[p].at + DeviceLife]
<1>4. e \in Device /\ e # None /\ e.user = frame[p].user /\ e.ip = frame[p].ip
  BY <1>2, TimeAssumption, NoRowAssumption DEF Device
<1>5. devices' = [devices EXCEPT ![d] = e]
  BY <1>3 DEF Registered
<1> HIDE DEF e
<1>6. StoreOK' /\ RowsKept(rows, rows') /\ DevicesKept(devices, devices')
  BY <1>1, <1>3, <1>4, <1>5 DEF IInv, TypeOK, StoreOK, RowsKept, DevicesKept
<1>7. NewRowsOK(rows, rows', devices')
  BY <1>1 DEF NewRowsOK
<1>8. HasDevice(frame[p].user, frame[p].ip, devices')
  <2>1. devices'[d] = e
    BY <1>5 DEF IInv, TypeOK
  <2> QED BY <1>4, <2>1 DEF HasDevice
<1>9. CASE Drop(p)
  <2>1. frame' = [frame EXCEPT ![p] = Blank("done")]
    BY <1>9 DEF Drop
  <2> QED BY <1>6, <1>7, <2>1, DoneFrame, Moves
<1>10. ASSUME NEW pc \in {"create", "inval"}, Goto(p, pc) \/ GotoNow(p, pc) PROVE IInv'
  <2>1. pc \in Pcs
    BY DEF Pcs
  <2>2. PICK t \in Nat : frame' = [frame EXCEPT ![p] = [frame[p] EXCEPT !.pc = pc, !.at = t]]
    BY <1>10, <2>1, GotoFrame
  <2> DEFINE g == [frame[p] EXCEPT !.pc = pc, !.at = t]
  <2>3. /\ g \in Frame /\ g.pc = pc /\ g.op = frame[p].op /\ g.user = frame[p].user
        /\ g.ip = frame[p].ip /\ g.dev = frame[p].dev /\ g.ref = frame[p].ref /\ ~g.spent
        /\ g.two = frame[p].two
    <3>1. frame[p] \in Frame /\ ~frame[p].spent
      BY <1>1, Onward
    <3> QED BY <2>1, <3>1 DEF Frame
  <2> HIDE DEF g
  <2>4. FrameOK(g, rows', devices')
    BY <1>2, <1>8, <2>3 DEF FrameOK
  <2> QED BY <1>6, <1>7, <2>2, <2>3, <2>4, Moves DEF g
<1> QED BY <1>9, <1>10 DEF CreateDevice, RegisterDevice

\* refreshToken.create: the call has a device where it needs one.
LEMMA CreateMoves ==
  ASSUME IInv, NEW p \in Calls, CreateRow(p)
  PROVE  IInv'
<1>1. /\ frame[p].pc = "create" /\ Goto(p, "reply")
      /\ UNCHANGED <<now, twoFactor, devices, denied>>
  BY DEF CreateRow, At
<1>2. /\ frame[p] \in Frame /\ FrameOK(frame[p], rows, devices)
      /\ frame[p].user \in Users /\ frame[p].ip \in Ips /\ frame[p].at \in Nat
      /\ frame[p].two \in BOOLEAN
  BY <1>1, CallFacts DEF FrameOK, Frame
<1> DEFINE e == [user |-> frame[p].user, ip |-> frame[p].ip, valid |-> TRUE,
                 exp |-> frame[p].at + RefreshLife, two |-> frame[p].two]
<1>3. PICK r \in RefreshTokens : rows[r] = None /\ rows' = [rows EXCEPT ![r] = e]
  BY DEF CreateRow
<1>4. e \in Row /\ e.user = frame[p].user /\ e.ip = frame[p].ip /\ e.two = frame[p].two
  BY <1>2, TimeAssumption DEF Row
<1> HIDE DEF e
<1>5. StoreOK' /\ RowsKept(rows, rows') /\ DevicesKept(devices, devices')
  BY <1>1, <1>3, <1>4 DEF IInv, TypeOK, StoreOK, RowsKept, DevicesKept
<1>6. NewRowsOK(rows, rows', devices')
  <2>1. \A s \in RefreshTokens : rows'[s] = IF s = r THEN e ELSE rows[s]
    BY <1>3 DEF IInv, TypeOK
  <2>2. e.two => HasDevice(e.user, e.ip, devices')
    BY <1>1, <1>2, <1>4 DEF FrameOK
  <2> QED BY <2>1, <2>2 DEF NewRowsOK
<1>7. "reply" \in Pcs
  BY DEF Pcs
<1>8. PICK t \in Nat :
        frame' = [frame EXCEPT ![p] = [frame[p] EXCEPT !.pc = "reply", !.at = t]]
  BY <1>1, <1>7, GotoFrame
<1> DEFINE g == [frame[p] EXCEPT !.pc = "reply", !.at = t]
<1>9. /\ g \in Frame /\ g.pc = "reply" /\ g.op = frame[p].op /\ g.user = frame[p].user
      /\ g.ip = frame[p].ip /\ g.dev = frame[p].dev /\ g.ref = frame[p].ref /\ ~g.spent
      /\ g.two = frame[p].two
  <2>1. frame[p] \in Frame /\ ~frame[p].spent
    BY <1>1, Onward
  <2> QED BY <1>7, <2>1 DEF Frame
<1> HIDE DEF g
<1>10. FrameOK(g, rows, devices)
  BY <1>1, <1>2, <1>9 DEF FrameOK
<1>11. FrameOK(g, rows', devices')
  BY <1>5, <1>9, <1>10, FrameKept
<1> QED BY <1>5, <1>6, <1>8, <1>9, <1>11, Moves DEF g

-----------------------------------------------------------------------------
(* The theorems.                                                           *)

\* The inductive invariant of the device and rotation API: what each await of
\* login and refreshTokens relies on.
THEOREM Inductive == Spec => []IInv
<1>1. Init => IInv
  <2> SUFFICES ASSUME Init PROVE IInv
    OBVIOUS
  <2>1. Blank("new") \in Frame /\ Blank("new").pc = "new" /\ ~Blank("new").spent
    BY DEF Blank, Frame, Pcs
  <2>2. frame \in [Calls -> Frame] /\ \A p \in Calls : frame[p].pc = "new" /\ ~frame[p].spent
    BY <2>1 DEF Init
  <2> QED BY <2>2 DEF Init, IInv, TypeOK, FramesOK, InFlight, TwoFactorHasDevice
<1>2. IInv /\ [Next]_vars => IInv'
  <2> SUFFICES ASSUME IInv, [Next]_vars PROVE IInv'
    OBVIOUS
  <2>1. CASE Tick \/ UNCHANGED vars
    <3>1. now' \in Nat /\ UNCHANGED <<twoFactor, rows, devices, denied, frame>>
      BY <2>1 DEF Tick, vars, IInv, TypeOK
    <3> QED BY <3>1 DEF IInv, TypeOK, FramesOK, InFlight, TwoFactorHasDevice
  <2>2. ASSUME NEW p \in Calls, Arrive(p) PROVE IInv'
    BY <2>2, LoginArrives, RotateArrives, RevokeMoves DEF Arrive
  <2>3. ASSUME NEW p \in Calls, Settle(p) PROVE IInv'
    BY <2>3, InvalidationMoves, WalkMoves, FindTokenMoves, DeviceMoves, CreateMoves
    DEF Settle, LoginStep, TheftStep, RotateStep
  <2> QED BY <2>1, <2>2, <2>3 DEF Next
<1> QED BY <1>1, <1>2, PTL DEF Spec

\* The tables and the calls of AuthService keep their types.
THEOREM DeviceTypes == Spec => []TypeOK
<1>1. IInv => TypeOK
  BY DEF IInv
<1> QED BY <1>1, Inductive, PTL

\* validateOrRegisterDevice: a refresh token that goes back to a login with
\* two-factor has a device of its user at its address, however it was rotated.
THEOREM TwoFactorNeedsDevice == Spec => []TwoFactorHasDevice
<1>1. IInv => TwoFactorHasDevice
  BY DEF IInv
<1> QED BY <1>1, Inductive, PTL

\* refreshTokens issues nothing for a token that was spent before the call.
THEOREM SpentTokensRefused == Spec => []SpentRefused
<1>1. IInv => SpentRefused
  BY DEF IInv, FramesOK, SpentOK, SpentRefused
<1> QED BY <1>1, Inductive, PTL

\* handleTokenTheft denies only the address of the call it works for, and but
\* for the refresh handler's alarms only for a token of another address.
THEOREM DenialsHaveCause == Spec => DeniedForCause
<1> DEFINE Cause == \A i \in denied' \ denied :
                      \E p \in InFlight :
                        /\ frame[p].ip = i
                        /\ frame[p].op = "alarm" \/ Elsewhere(frame[p], rows, devices)
<1>1. IInv /\ [Next]_vars => [Cause]_vars
  <2> SUFFICES ASSUME IInv, Next, NEW i \in denied' \ denied
               PROVE  \E p \in InFlight :
                        /\ frame[p].ip = i
                        /\ frame[p].op = "alarm" \/ Elsewhere(frame[p], rows, devices)
    BY DEF Cause
  <2>1. PICK p \in Calls : TheftDeny(p)
    <3>1. CASE Tick
      BY <3>1 DEF Tick
    <3>2. ASSUME NEW p \in Calls, Arrive(p) PROVE FALSE
      BY <3>2 DEF Arrive, Login, LoginTwoFactor, VerifyTwoFactorOtp, RefreshAlarm,
         RefreshTokensCall, RevokeRefreshToken
    <3>3. ASSUME NEW p \in Calls, Settle(p), ~TheftDeny(p) PROVE FALSE
      BY <3>3 DEF Settle, LoginStep, TheftStep, RotateStep, InvalidateRefresh, ClearCaches,
         FindDevice, CreateDevice, EnableTwoFactor, RegisterDevice, CreateRow, Reply,
         TheftInvalidate, TheftNotify, FindToken, ExpireAll, Spend, FindUser, Fail
    <3> QED BY <3>1, <3>2, <3>3 DEF Next
  <2>2. frame[p].pc = "deny" /\ i = frame[p].ip
    BY <2>1 DEF TheftDeny, At
  <2>3. p \in InFlight /\ (frame[p].op = "alarm" \/ Elsewhere(frame[p], rows, devices))
    BY <2>2, CallFacts DEF InFlight, FrameOK
  <2> QED BY <2>2, <2>3
<1> QED BY <1>1, Inductive, PTL DEF Spec, DeniedForCause
=============================================================================
