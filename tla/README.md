# LinBPQ verification project

LinBPQ is the Linux build of the G8BPQ packet radio node: an AX.25 level 2
link layer (`src/L2Code.c`), NET/ROM levels 3 and 4 (`src/L3Code.c`,
`src/L4Code.c`), INP3 routing, drivers for modems, and a BBS, a chat server
and gateways on top.  This directory holds TLA+ models of its protocol engines,
the TLC runs that check them and the TLAPS proofs about them.
`PROJECT.json` lists the components, the runs, the source lines behind every
definition, the hazards and the findings.

## How the system runs

The node is one thread.  Its main loop (`src/LinBPQ.c:1882`) calls
`TIMERINTERRUPT` (`src/cMain.c`) under one semaphore: it takes what the drivers
received (`L2Routine`), runs the level 2 timers (`L2TimerProc`), the level 3
and 4 routines (`L3BG`, `L4BG`, `L4TimerProc`), carries out the disconnects
that hosts asked for (`TNCTimerProc`) and lets each link send (`SDETX`).  Every
100 ms the same loop then runs the BBS and the other applications outside the
semaphore (`UnSemaphored100msCode`).  A handler is never interrupted by another
one, so an action of a model is a whole handler; what varies is the order in
which frames, timers and user requests are taken, and what the radio path
does meanwhile.

## Inventory

Every part of the repository is a row of `components` in `PROJECT.json`.  The
ones with protocol state of their own:

| Component | State | Operations | What makes it hard | What makes it correct |
|---|---|---|---|---|
| AX.25 level 2, data (`L2Code.c`) | `_LINKTABLE`: state, `LINKWS/LINKNS/LINKNR/SDTSLOT`, `FRAMES`, `RXFRAMES`, timers, flags | I, RR, RNR, REJ, SREJ, DISC, UA, DM received; `SDETX`; T1, T2, T3, busy over; close | frames lost; sequence numbers modulo 8; delayed answers to polls; REJ, SREJ, polling and close interleave | data in order, once, none missing; nothing released early; no link that stays up and does not deliver; a close that ends |
| AX.25 level 2, connection (`L2Code.c`, `Cmd.c`) | link table, `L2STATE` 0 to 5, `CIRCUITPOINTER`, `SESSACTIVE`, the level 4 entry behind the link | SABM, XID, UA, DM, DISC; call, cancel, refuse; retries, validation poll, idle time | crossing calls, lost answers, repeats of SABM on a link in use, stale `CIRCUITPOINTER`, one end that lost the link and one that did not | a session hangs on the link it belongs to and is told when it goes; one answer to each call; the two ends end up agreeing |
| NET/ROM level 4 (`L4Code.c`) | `TRANSPORTENTRY`: state, ids, `TXSEQNO/RXSEQNO/L4WS`, hold and reseq queues, flags, timers | CREQ, CACK, DREQ, DACK, INFO, IACK, RESET; `L4BG`; retry, ack, busy, kill timers; close; restart | multi-hop loss, sequence numbers modulo 256, NAK and choke, restarts | as level 2; a call is answered; entries are given back |
| NET/ROM level 3 (`L3Code.c`, `NETROMMSG`, `DecayNETROMRoutes`) | `DEST_LIST` with three routes each, `ROUTE` table, obsolescence counts, crosslinks | NODES broadcast, forwarding, route choice and change, crosslink up, failed and lost, time to live, decay | routes that are stale or point at each other, links that fail under traffic, nodes that go and come back | tables that point to what exists; dead nodes forgotten, live ones learnt; no message goes round or waits for ever; the second best route is used when the best fails |
| INP3 (`BPQINP3.c`) | round-trip times, per-route hop counts and link timers | RIF, RTT probes, route update | unreachable reports, ordering of updates | a node reported down is not used |
| NETROM over TCP (`NETROMTCP.c`) | socket, reassembly buffer | connect, read, send, close | partial reads | frames cut where the sender cut them |
| BBS sessions (`BBSSessionControl.c`, `BBSStreamGuard.c`, parts of `BBSUtilities.c`) | `ConnectionInfo` per stream, `ForwardingInfo` per partner | dial out, connect script, incoming connect, SID, disconnect, `MaxSessionTime`, lock-out, INTERLOCK | node and BBS each change a stream and see the other's change later; checks made before the thing they check; per-partner state shared by sessions | a stream is handed over clean; a refused caller runs nothing; one session on an interlocked port; no partner left blocked |
| FBB forwarding (`FBBRoutines.c`) | proposal block, `FBBHeaders`, temporary BIDs, restart data, `fbbs`/`forw` of a message | FA/FB, F>, FS, FF, FQ, binary transfer, restart, loss of the session | a link that breaks at any block, damage, a partner offering what another one is sending, a BBS that is killed | mail is stored once and whole, is marked as sent only when it is there, reaches everybody, and no session hangs |
| Chat (`HanksRT.c`) | nodes, users, topics and links with reference counts to each other; `DupInfo`; `RunningConnectScript` | log in and out, link out, *RTL, join, leave, link, unlink, topic and text lines, link lost, timers | calls that cross, links that drop with lines on their way, loops, nodes that crash | counts agree with the records; linked nodes agree on who is where; a text is heard by all in the topic, once; links follow the users |
| Mail routing, housekeeping (`MailRouting.c`, `Housekeeping.c`) | message status, `fbbs`/`forw` bit maps | route, forward, kill | status changed while being forwarded | a message is held until every copy has gone |

The drivers, front ends, configuration and vendored code are listed in
`PROJECT.json` with the reason they are left aside.

How they interact: a frame goes driver -> `L2Routine` -> link entry; an I frame
with PID CF goes up to level 3 and 4, one with PID F0 to the session in
`CIRCUITPOINTER`.  A level 4 session is joined to another session by
`L4CROSSLINK`; `IFRM150` puts what one received on the other's transmit queue,
and `L4BG` moves that to the link's `TX_Q` or builds INFO messages.  A full
transmit queue is what `CHECKIFBUSYL2` and `CHECKIFBUSYL4` look at.
Disconnecting one side calls `CloseSessionPartner` for the other.  The BBS sees
its sessions through `BPQHOSTVECTOR` and polls for state changes.

The shared thing in the BBS is the stream: the node changes `HOSTSESSION` and
`HOSTFLAGS`, the BBS its `ConnectionInfo`, and each learns of the other's change
on its next turn.  The protocol layers share the link entry and the session
entry in the same way: level 4 sets `DISCPENDING`, level 2 acts on it later.

## Modules

| Module | Models | Variables | Lines of the code |
|---|---|---|---|
| `L2Link` | one link entry: the routines as operators from an entry (and a frame) to `[link, out]` | none | `SDETX`, `ACKMSG`, `SDNRCHK`, `SDIFRM`, `PROC_I_FRAME`, `RR_OR_RNR`, `SFRAME`, `SendSupervisCmd`, `SDFRMR` of `L2Code.c` |
| `L2Data` | two entries that agreed on REJ or SREJ (`Versions`), and the air between them | `link`, `air` | `L2_PROCESS`, `L2TIMEOUT`, `L2TimerProc`, `CLOSECURRENTSESSION` |
| `Stream` | what level 2 promises: a reliable, ordered stream each way that may end | `queued`, `got`, `open` | (abstract) |
| `L4Entry` | one level 4 session entry, routines as operators | none | `SENDL4MESSAGE`, `L4BG`, `ACKFRAMES`, `FRAMEFORUS`, `L4TIMEOUT` of `L4Code.c` |
| `L4Circuit` | a circuit between two nodes, from the call to the close | `sess`, `net`, `NEXTID`, `restarted`, `use` | `CONNECTREQUEST`, `SendConACK`, `FRAMEFORUS`, `L4SecTimer` |
| `BBSStreams` | the streams between BBS and node, connect script, refusals, as operators on `[conn, host, fwd]` | none | `BBSSessionControl.c`, `BBSStreamGuard.c`, `Connected`, `Disconnected`, `ProcessBBSConnectScript` |
| `BBSSessions` | node and BBS taking turns | `conn`, `host`, `fwd`, `turn` | `PollStreams`, `TNCTimerProc`, `FWDTimerProc`, `BBSSlowTimer`, `cATTACHTOBBS` |
| `L2Connect` | two entries, their users and level 4 tables, from nothing to a link and back | `node`, `air`, `calls` | `L2FORUS`, `L2LINKACTIVE`, `L2SABM`, `L2_PROCESS`, `L2TIMEOUT`, `ConnectFailedOrRefused`, `InformPartner`, `SETUPNEWL2SESSION`; `Connect` in `Cmd.c` |
| `L3Routes` | nodes with their tables, crosslinks and messages | `net`, `node`, `up`, `due`, `left`, `arrived` | `PROCESSNODEMESSAGE`, `PROCROUTES`, `UPDATEDESTLIST`, `L3BG`, `L3TRYNEXTDEST`, `CHECKL3TABLES`; `NETROMMSG`, `FRAMEFORUS`; `DecayNETROMRoutes` |
| `FBBForward` | BBSs that forward to each other over links that break | `net`, `bbs`, `conn`, `wire`, `faults` | `ProcessFBBLine`, `FlagSentMessages`, `LookupRestart`, `LookupTempBID`, `SaveFBBBinary`, `Disconnected` and what they call |
| `ChatNet` | chat nodes that link and tell each other who is there | `net`, `chat`, `left`, `owed` | `chkctl`, `rtloginl`, `rtloginu`, `logout`, `state_tell`, `link_drop`, `node_dec`, `text_tellu`, `makelinks`, `ProcessChatConnectScript` |
| `L2DataProofs`, `L2ConnectProofs`, `L3RoutesProofs`, `L4CircuitProofs`, `BBSSessionsProofs`, `FBBForwardProofs`, `ChatNetProofs` | the proofs (see below) | | |
| `FoldProofs` | what a loop keeps, for all of them | | |
| `MC...` | the instances for TLC | | |

A component is a set of operators that are the C routines, each from the record
before the call to the record after it, and the actions that compose two
entries, node and BBS, or all the nodes of a network, one for each event that
makes the code run; where the routines are many the two are modules of their own.  Names are the source's.  Fields of a record are
those of the C struct that any property or guard depends on.  `link.queued`,
`loaded` and `RX_Q` (at level 4 `queued`, `sent`, `RX`) are histories: messages
are numbered 1, 2, ... in the order in which they are queued at one end, and
`RX_Q` is what was passed up, so that "in order, none missing, none twice" is
`RX_Q[k] = k`.

*Level 2.*  A frame carries type, C/R, P/F, N(S), N(R) and the number of the
message in it.  `SDETX` loads `FRAMES` from `TX_Q` and then sends what the window
allows; the two are `LoadFrames` and `SendFrames`.  `TX_Q` is the messages after
`loaded` up to `queued`.  An incoming frame runs `L2_PROCESS` to its end: an I
frame is `SDNRCHK`, then `SDIFRM`, including what `SDIFRM` calls (`ACKMSG`, a
pending close, saved frames, REJ or SREJ, the answer to P).  Whether there are
buffers left and whether the session behind the link is slow (`RNRSENT`) is
the choice `busy`; whether a REJ has just been sent is `recent` (the time test at
2726).  Timers are flags: a timer that runs may run out.  The link validation
timer (T3) needs a quiet link since every frame sent restarts it.  A reset
(`L2STATE` 2, SABM sent) is where the module ends, because what follows is the
connect phase.

*Level 4.*  The same with CREQ, CACK, DREQ, DACK, INFO, IACK and RESET.  `Hold`
and resequencing queues are sequences in the order of the C lists;
`corrupt` says that `L4RESEQ_Q` was left in the state the search at 2645-2662
leaves it when the wanted frame is not the first.  The network loses messages
and keeps order, as one route of level 3 over level 2 does.

*BBS.*  `turn` is the order of the main loop: the node's part, the poll of each
stream, the 2 s and the 10 s timers.  In the node's part anything may happen on
the links (`CallIn`, `CallOut`, `LineIn`, `Drop`) before `TNCTimerProc` ends it.
A connect command waits until the node carries it out (`Call`, before `TNCTimerProc`),
and the stream counts as being on the port from then on.
`host[n].sess` is `HOSTSESSION` with what it is attached to, `change` and `disc`
are bits 3 and 40 hex of `HOSTFLAGS`.  `stray` stands for a `port` variable
that `GetConnectionInfo` did not set and `junk` for what `Scripts[-1]` holds; both
are free choices.  A connect script is INTERLOCK and a connect command.  There are at most
32 streams: the `continue` at `TNCCode.c:70` stays on a stream that is to be disconnected and has no
session, so that as many fewer of the 64 host streams are served in that turn.

*Level 2 connection.*  `node[s]` has the entry for the other station, the table of
level 4 sessions (`CIRCUITPOINTER` is an index into it or `None`) and what the
user who called was last told.  The entry is shared by calls either way, as
`FindLink` finds it by the pair of calls.  Data is one symbol that asks for an
acknowledgement, because the numbering is `L2Data`'s.

*Level 3.*  Level 2 is seen from above: a crosslink comes up or fails, carries what
is queued in order, is closed, or is lost, with the calls level 2 makes for each
(`L3LINKSETUPFAILED`, `L3LINKCLOSED`, `CLEAROUTLINK`).  A broadcast is heard at
once by each node that hears the sender, or lost.  `due` makes intervals of
`L3TIMER`: every running node broadcasts once in each, in any order.

*FBB.*  A message image is a number of units (a unit is what `SaveFBBBinary` saves
at a time); a link may break after any line or block and each end learns of it
in its own time; `Decode` finds damage by the checksum or the CRC.  `bbs[b].file`
is the copy of the restart data a restart reads back, so a crash keeps what was
written and no more.  `CanOpen` lets two BBSs have one session with each other at a time.
The code's guard is "Already Connected" (`BBSUtilities.c:12867`), which the end of another
session with the same partner defeats (11217); two at a time are left out here.

*Chat.*  A session keeps the order of its lines until it breaks or is closed, which
each end notices in its own time; nothing is read after Disconnect.  Circuit
`<<"out", m>>` is a node's call to m and `<<"in", m>>` m's call to it.
Counts are kept as the code keeps them, also where they go wrong; the SID and
the connect script are one step (`Reaches`).  `owed` is a history: who should
hear what was said when all agreed.  In the loop of `chat_net` C is not given LINK lines for A and
B, which call it: `links` says there who calls, and the code would want an entry at C too
before it takes a call.

## Runs

Passing runs check all their properties; a violation run shows one statement of
the repository's comments or documents that the code does not keep.

| Run | Instance | Shows |
|---|---|---|
| `l2_seq` | REJ and SREJ, five messages A to B, losses | `WindowInv`: the `FRAMES` slots, `SDTSLOT` and the window start stay in step whatever acknowledgements, retries and polls do. `Watched`: a window that is not at its start has T1 running, also when N(S) was left below the start. `AckedIsReceived`; `SavedIsDue`: what is saved out of sequence is what is due when its number comes. `ImplementsStream`: the two ends refine `Stream`, so data arrives in order, once, none missing |
| `l2_live` | B may be busy, A may close, every loss pattern | `DeliveredOrClosed`, `CloseCompletes` |
| `l2_connect` | each calls the other, A perhaps with XID; B may refuse, and have its table filled by others | `NoOrphan`: a session over the link is the one its entry names. `AnsweredOnce`, `CallAnswered`: one answer to a call. `EndsAgree`, `SetupEnds`: no end is left up alone or half way |
| `l4_circuit` | nine messages one way; two and one; a slow session, a close at any time and a restart of the called node | `InOrder` over the wrap of the numbers; `HoldInv`: hold queue, `L4WS` and `TXSEQNO` agree; `AckedIsReceived`; `DeliveredOrClosed`, `CloseCompletes`, `CallIsAnswered` |
| `l4_reseq` | window 3 (four outstanding), modulus 16 | violation of `InOrder`, see findings |
| `l4_oldack` | modulus 8: one message from A, six from B | violation of `AckedIsReceived`, see findings |
| `l3_routes` | a row of three that learns; a best route that does not work; links that fail under traffic; tables that form a loop | `NoDangling`: no queue or neighbour entry names a link that has gone. `Forgets`, `Learns`: dead nodes leave every table, live ones come to be in it. `ComesToRest`: no message goes round or waits for ever. `GetsThrough`: calls find the second best route |
| `l3_wrap` | four calls to a node neither of whose routes works | violation of `NoSelfLock`, see findings |
| `bbs_sessions` | one partner, one user, one stranger, two ports, two streams | `FreeHasNoDisc`, `ForwardingHasSession`, `IncomingAlone`, `RunEnds` |
| `fbb_forward` | two BBSs that exchange mail, a relay, a triangle; breaks, damage, a crash | `NoLoss`: a message is not marked as sent before it is there. `NoDup`, `Whole`: stored once, and whole. `AllForwarded`, `SessionEnds` |
| `fbb_restart` | two partners with the same bulletin for a third | violation of `NoDup`, see findings |
| `chat_net` | two nodes that call each other; a row of three that breaks, crashes, talks or has a leave ignored; a loop of three | `CountsAgree`: reference counts are the number of references. `Agree`: settled nodes agree on nodes, users and neighbours' topics. `Heard`: a text is heard by all, once. `LinksFollowUsers`: links come up with the first user and everything is let go after the last |

### Bounds

- Level 2 has modulus 8, a receive window of 4 and MAXFRAME up to 7.  The runs
  scale them to 4, 2 and 2: the proportion (window half the modulus) is what the
  comparisons depend on, and five messages use every number and wrap.  Two frames
  in the air one way let a repeat cross the acknowledgement and a poll cross
  its answer.  The proofs allow the real numbers too.
- PORTN2 2 means one retry, then the give-up.  A third try repeats the second,
  except for the delayed answer to an earlier poll (see `L2Code.c:2540` below).
- `l2_live` has one message: the question is whether the link can wait for ever
  and one message outstanding is where it can.
- Level 4 uses modulus 8 for 256 and `L4WINDOW` 1, which lets two messages be
  outstanding (the code stops above the window); nine messages go past the wrap.
  The corrections at -128 and 128 are half the modulus in `Half`.
- Batch and the cap on messages or frames in transit (`AirCap`, `cap`) are the
  queueing bounds; what exceeds the cap is lost, which the path may do anyway.
- `l2_connect` gives each user one call, level 4 tables of one entry and one frame
  in the air each way: a call that crosses, one that is repeated, and one that
  finds the table full all happen.
- `l3_routes` scales OBSINIT 6 and OBSMIN 2 (6 and 5 by default): with OBSINIT 3 a
  node that ticks twice between two broadcasts of a neighbour drops it from its
  own, which is a matter of the default values' margin.  L3LIVES 3 is one more
  than the row needs and lets a message go round a loop of two.
- `fbb_forward` has at most two units for a message, so that a transfer may break
  before, between and after; MaxBlock 2 for 5, DeferFor 1 for 4, MaxRestarts 1
  for 10, at most two breaks, one piece of damage and one crash.
- `chat_net` has rows of three, in which every kind of line is passed on once.
  Crossing calls, refused calls, breaks, crashes, ignored leaves and ten-minute
  ticks that fall on an unsettled node are bounded for each network (`net.max`).
  In the loop A and B are linked already and both call C.
- Two streams are the least in which one session is counted against another, and
  a call may take a stream while a run is on the other.  One partner reaches the
  double run of one partner.
- All runs say `CHECK_DEADLOCK FALSE`: a link or a circuit may be finished with
  nothing left to do, and the models end at a reset (level 2) or when the script
  index leaves the script (BBS).

### Fairness

`L2Data` assumes of each station that it keeps reading what arrives, sends what
it may, and that its timers run down: the main loop calls each of these on every
turn or every second, unconditionally.  Nothing is assumed of the air, which may
lose every frame, or of level 4.  The promises hold for receivers that do not
stay busy for ever (`<>[]~RNRSENT`): RNR may hold a link as long as it likes.

`L4Circuit` assumes the same of each node and, for the liveness properties,
`PathIsFair`: data that is resent for ever is not lost for ever.
At level 2 that is not needed, because tries are counted; at level 4 the
count is not reliable (see 2750 below).  The kill timer is fair on
an idle session, which is its definition.

`BBSSessions` assumes that the main loop keeps turning and that a partner's
session that goes on passes `MaxSessionTime`, so `RunEnds` is a statement about
installations that configure it (0, the default, means no limit).

`L2Connect` assumes what `L2Data` does of timers and reading, and strong fairness of
the idle time of a link that has no session any more (`IdleTooLong`): the time is not
restarted by what the other end does.  It takes N2 times T1 to be less than the
60 s of `KILLTIMER`.

`L3Routes` assumes that `L3TIMER` runs out on every running node, that `L3BG` runs,
that a link that works carries what it is given, and that a setup or a close
ends one way or the other.  `FBBForward` assumes that each end keeps reading, dials
while it has mail for the other and closes when asked; breaks, damage and crashes
are not fair.  `ChatNet` assumes that the ten-second timer and the polls keep running
and that lines arrive while the session lasts; users, breaks and crashes are not
fair.  That a call fails, or that two calls cross, happens only a bounded number of
times: two nodes whose calls cross every time never link (see below).

## Findings

- **`l4_reseq`** (`L4Code.c:2662`).  Taking a frame from the middle of `L4RESEQ_Q`
  goes through a pointer to a local variable, and another frame is delivered.
- **`l4_oldack`** (`L4Code.c:2698`).  A message is resent with the `L4RXNO` it was built
  with.  When `L4WS` has moved more than 128 past that number, 256 is added and the old
  number counts as the acknowledgement of up to 127 messages the other end has not got.
- **`l3_wrap`** (`BPQINP3.c:336`).  `DecayNETROMRoutes` decrements the obsolescence
  count of a second or third route without a look at it; `L3TRYNEXTDEST` leaves a 0
  behind (`L3Code.c:1460`), and the next failure makes it 255, which is "locked".
  The same code unlocks a locked route.
- **`fbb_restart`** (`FBBRoutines.c:616`).  The restart record is looked up before the
  temporary BID, so a partner that was interrupted may resume a bulletin that another
  one is sending at the moment; both are stored.

Met while modelling, without a run of their own.  The models follow the code in
each of these, and the properties are stated so that they hold with them:

- `L2Code.c:2540`: a delayed RR(F) moves N(S) back below frames that have been received;
  unless it is below the window start (see 3043), the
  acknowledgement behind it looks like an N(R) that was never sent and resets the
  link, with two conforming ends (PORTN2 3; `tests/integration/helpers/l2_repro.py:19`).
- `L2Code.c:3043`: `SDNRCHK` takes an N(R) below the window start up to N(S) without asking whether
  the window wraps, although the comment at 3041 says "only OK if window wraps".  After a second
  answer to a poll has moved N(S) back (2540), the acknowledgement behind it takes the
  window start past N(S), outside of what `FRAMES` holds (in `l2_seq`: `LINKWS` = N(S) = 2 and
  RR 0).  `SDETX` then sends nothing until T1 (`Watched`) leads to a poll whose answer sets N(S) again.
- `L2Code.c:2667`: with MAXFRAME above 4 a repeated frame falls within the receive
  window of 4 and is passed up as new; `docs/protocols/ax25.md:39` allows 1 to 7.
- `L2Code.c:3789`: a pending close is carried out when `TX_Q` is empty and N(R) =
  N(S), although `FRAMES` may hold frames that have not been sent.
- `L2Code.c:2608`: `SDIFRM` sets state 6 after `ACKMSG` has started the close: no DISC
  follows and the link stays up without a session (`L2Data` with data both ways and
  A closing violates `CloseCompletes`).
- `L2Code.c:2532`: "too many repeats" closes the link without telling the session.
- `L2Code.c:2339`: SREJ may ask for a frame that was not sent yet.
- `L2Code.c:1141`: XID on a link that is up detaches the session and is then ignored;
  the comment there expects a state the link is not in.
- `L2Code.c:2190`: DM in state 2, and FRMR, return without `ReleaseBuffer`.
- `L2Code.c:3847`: an answer to XID on the last try ends in CONNECTFAILED and no SABM;
  `SESSACTIVE`, `L2RETRIES`, `L2SLOTIM` and `KILLTIMER` survive a redial.  An XID call that
  crosses the other end's call can orphan a session; `XIDMayCross` leaves that case out.
- `L2Code.c:1325`: a SABM refused by the interlock leaves the entry in state 5.
- `Cmd.c:3142`: a call that finds the link table full leaks its session, and one that
  finds the entry in use takes it over.
- `L4Code.c:2749`: data arriving while the answer to a DREQ is awaited stops the
  timer, and only the kill timer is left if the DREQ is lost.
- `L4Code.c:2698`, the other side of the same test: an old acknowledgement from just
  before the wrap (NR 255 with L4WS 0) counts as 255 messages, where -1 is meant, and
  releases the whole hold queue.
- `L4Code.c:2446`: a frame that comes early across the wrap is taken for a repeat.
- `L4Code.c:2330`: a repeated CACK reopens a session that is closing.  If the called node
  has restarted and a repeated CREQ has set up a new circuit there, the caller's old
  session is joined to it with the old sequence numbers, and `HoldInv` fails.
- `L4Code.c:730`: one message more than `L4WINDOW` goes out.
- `L4Code.c:2750`: an acknowledgement of nothing resets `L4RETRIES`.
- Both ends closing with data outstanding keep each other alive by resending.
- With data both ways over a path that lets one frame of two through and always drops the
  second, the crossing data resets both retry counters: neither delivered nor closed.
- `L3Code.c:693`: in a triangle two nodes keep a dead third one by way of each other,
  because a reflected broadcast keeps the quality and refreshes the count; against
  `docs/protocols/netrom.md:48`.
- `L3Code.c:996`: `CLEARACTIVEROUTE` tests `INP3ROUTE` and never clears a NET/ROM route.
- `L3Code.c:949`: a destination whose quality scales to 0 is skipped without moving on:
  the fragment is never finished (QUALADJUST 100).
- `L4Code.c:277`: each message that comes back to its origin moves `DEST_ROUTE` on, and only 4
  is set back to 1; past 4 the count goes on to the end of its 8 bits (`asmstrucs.h:539`).
- `L3Code.c:699`: a new route put in a locked slot inherits the lock.
- `L3Code.c:1427`: every broadcast that mentions a destination makes its best route active
  again, so a best route that fails costs one message in each interval.
- `L2Code.c:3873`: a crosslink given up while disconnecting is cleared without a word to
  level 3; `L3BG` gives up a node when the link table is full; reports of unreachable
  destinations are answered by such reports.
- `FBBRoutines.c:1977`: `SaveFBBBinary` overwrites the last record when none matches; a
  restart goes on in the record's own buffer, and the code behind `goto GotRestart` that
  would remove the record is never reached.
- `FBBRoutines.c:378`: an answer "=" clears the header and leaves the message locked.
- `FBBRoutines.c:861`: what `CreateMessage` returns is ignored, so a message that turns out to be a
  duplicate is received to its end, with "NO - BID" sent in between.
- `BBSUtilities.c:6544`: the message base is saved before the BIDs: a BBS killed between the
  two forgets a BID and takes the bulletin again.
- `HanksRT.c:1546`: `state_tell` tells a new neighbour the topics of all users with this node's
  call, and the neighbour, which looks for call and node, ignores those of users further
  away: their topic is taken for the default one, and texts are not passed on to them.
- `HanksRT.c:2626`: when two nodes call each other at once each accepts the other's call and drops
  its own, and does not wait before it calls again, so that this may repeat for ever;
  `RunningConnectScript` stays set and holds up all other calls for 30 s.  A call found
  standing on `*RTL` is refused earlier unless the other's call is half way.
- `HanksRT.c:1380`, 1418: a leave or an unlink within three seconds of the join is ignored, and
  a later `link_drop` may free the node record while a circuit's list still points to it,
  the case the comment in `node_dec` wants to exclude.
- `HanksRT.c:3780`: the window the comment admits: two links that come up at once make a loop,
  which stands until a link drops.  `CheckforDups` is then what keeps texts from being heard twice.
- `HanksRT.c:1190`: the comparison is of as many characters as the older text has, so "Hi all"
  within five seconds of "Hi" is taken for a duplicate.
- `HanksRT.c:447`: with no stream free `chat_link_out` leaves the link marked as being set up for
  ever; it may take a stream whose last session is still disconnecting.
- `HanksRT.c:3253`: `circuit_hd` has no circuits that wait for `*RTL`, so `node_close` misses them.
- `BBSUtilities.c:11217`: the end of any session with a partner, also of one that
  was refused, clears `Forwarding` while another one runs: a second run starts.
- `BBSUtilities.c:8384`: two sessions of one partner share `ScriptIndex` and step
  it past the closing NULL; `Disconnected` reads `Scripts[-1]` for a call that
  fails before its first line.  `InScript` is where the model stops.
- `BBSUtilities.c:11255`: every poll clears `SIDResponseTimer`.
- `BBSUtilities.c:8420`, 8241: `DParam` is shared by delay threads, and
  `Forwarding` is set there even if `ConnecttoBBS` failed.
- `BBSUtilities.c:2076`, `BBSSessionControl.c:121`: `port` keeps its last value for
  a session that has gone; a caller may be refused for a port nobody is on.

## Proofs

Each theorem holds for every value of the constants that the named assumptions
allow: any number of messages, tries, frames in the air, streams, callers or
nodes, where a run has a few.

| Module | Theorem | States | Under |
|---|---|---|---|
| `L2DataProofs` | `TypeCorrect` | `TypeOK` | `SeqMod` 4 or 8, half of it as receive window, any MAXFRAME below `SeqMod` |
| | `WindowKept`, `StreamImplemented`, `ReleasedIsReceived`, `SavedWillBeDue` | `WindowInv`, `ImplementsStream`, `AckedIsReceived`, `SavedIsDue` | `Covered` (level 2) |
| `L2ConnectProofs` | `SessionsKeepTheirLink`, `OneAnswer` | `NoOrphan`, `AnsweredOnce` | `NoCrossing` |
| `L4CircuitProofs` | `EntriesAreInOrder` | `TypeOK` | any even modulus and window |
| `L4CircuitProofs` | `HoldQueueIsOutstanding`, `AcknowledgedIsReceived`, `InOrderOrCorrupt` | `HoldInv`, `AckedIsReceived`; data in order until `corrupt` | `Covered` |
| `L3RoutesProofs` | `TablesInOrder`, `NothingDangles` | `TypeOK`, `NoDangling` | |
| `BBSSessionsProofs` | `RecordsAreInOrder`, `NoStaleRequest`, `MarkHasSession`, `PartnerIsAlone`, `RefusedEitherWay` | `TypeOK` and the three invariants of `bbs_sessions`; `DMOnlyIfRefused` (L2's refusal of a call is one of the BBS), which is only proved | |
| `FBBForwardProofs` | `NothingLost`, `StoredWhole` | `NoLoss`, `Whole` | |
| | `TypeCorrect`, `SessionsAgree` | `TypeOK`, `Links` (both ends and both wires of a session fit each other) | |
| `ChatNetProofs` | `CountsRight` | `CountsAgree` | `Exact` (part of the property): no loops, no leave ignored |

*Method.*  A module has an invariant about one record (an entry, a stream, a
node's tables), a lemma for each routine that says it keeps it, one for each
action that names the routine it carries out, and the temporal step.  Loops of the
code are `FoldLeft` or `FoldSet` over the list they walk; `FoldProofs` says that these have
a value and that what every turn keeps the loop keeps (`FoldKeeps`,
`SetFoldKeeps`).  Its induction is by a least counterexample among the naturals
(`LeastNatural`, `UpTo`), which needs no theorem with an operator for a parameter.

*Level 2, data.*  The invariant is `TypeOK /\ (Covered => WindowInv)` for the entries and
`Covered => Main` for both ends and the air, and the two parts need each other.  `WindowInv` says
that `FRAMES` holds messages in order from `LINKWS` up to `SDTSLOT`; it breaks if an N(R) is for
more than is held, since `ACKMSG` frees slots up to N(R) whatever is in them.  `SDNRCHK`
does not see to that: it compares N(R) with N(S), and N(S) may be anywhere, because an answer to
a poll sets it (`GoBack`) and N(R) may then pass it.  What does is `Main`, by counting what is on
its way (`AcksHeld`, `HeadAcks`).  Below that the argument goes bottom up: arithmetic of
`Plus` and `Dist` modulo `SeqMod`; how a window is built and used (`WindowIntro`, `WindowElim`);
one lemma for each routine of `L2Link`; one for each action.

*Level 2, the stream.*  The refinement rests on counting messages where the code counts modulo
`SeqMod`.  `Fit` is one entry by itself: `LINKNR` is the number of messages passed up, `LINKWS`
the number acknowledged, and a saved frame is in the slot in which it will be due.  `Moves` and
`Goes` say what a handler may make of an entry and send for it, with one lemma for each routine.
None of this is inductive without what is in the air: `Coming` says that an I frame on its way
is no further than a window from what the receiver has taken and from every frame behind it, so
that `WhichFrame` can tell new, early and repeated from N(S) alone; `Acks` says that no
N(R) is for more than was passed up and that they arrive in the order in which they grew, so that
`ACKMSG` cannot take an old one for a new one.  `Way` is the two for one
direction, `Main` both directions, and each action has a lemma that it keeps `Main` and is, through
the mapping `StreamNow`, a step of `Stream` or none.  `Covered` says that MAXFRAME is at
most the receive window and that nothing is queued for an end that may close.  The first part is
needed because of `L2Code.c:2667`, and the second because an end with a close pending
acknowledges data that `PROC_I_FRAME` throws away.

*Level 2, connection.*  `NodeOK` says of one station that sessions over the link are the one
its entry points to and that what the user was told agrees with the session table.  It is
not inductive: `L2TimerProc` clears an entry in state 1 whose timer does not run
without a word to the session, so it must be shown that the timer runs.
`CallOK` says why: while a call waits and an XID is about, no frame that stops the timer
is on its way and the other end is in no state to send one.  That is false when two
calls cross and one of them is by XID, the case `XIDMayCross` leaves
out and a session is orphaned (see `L2Code.c:3847` above), hence the hypothesis `NoCrossing`.

*Level 4.*  `TInv` adds to `TypeOK` that no more was sent than was queued.  For the rest,
`Entry` says of one end that its sequence numbers are the true counts, `Moves` that a routine
leaves an `Entry`, only lets it grow, and sends only what is true of it.  `Sys` relates two ends and two
queues; `CallerStep`, `CalleeStep`, `QuietStep`, `TakenStep` and `AnswerStep` are the five ways it
changes, and each action is one of them.  `Covered` says that no session queues more than half the
modulus of messages (128 in the code) and that the caller does not close.  Both parts are needed:
beyond the first `ACKFRAMES` takes an old acknowledgement for a new one (`l4_oldack`), and
a CACK that arrives in state 4 makes a closing session an open one (`L4Code.c:2330`).
The called end may close and restart.  With a window of one the data is in order
within those bounds (the lemma `WindowOneInOrder`).  For windows above one the
data is in order until `L4RESEQ_Q` is spoilt (`l4_reseq`), and `InOrderOrCorrupt` says that nothing
else disorders it.

*Level 3.*  The invariant is about each node's tables by themselves (`NodeOK`): routes ranked and by
way of different neighbours, a neighbour there for each route (`Rooted`), crosslink and neighbour
pointing at each other (`Linked`).  What other nodes send is arbitrary.  The proof of the type
showed that `DEST_ROUTE` has to be modelled with its 8 bits, since nothing else
bounds it.

*BBS.*  `LocalOK` and `LateOK` relate the two records of one stream, `Polled` what is left
of a change when its turn is over.  `Held` (a partner's mark has a session that keeps
it) needs care: while the script index is out of the script, the end of a
session is taken for a line of the script and the session stays, active, with nobody behind it.  `Holds`
leaves such a session out, and `Astray` says when one may come about.

*Forwarding.*  `FlagSentMessages` marks a block as sent when FS refuses all of it or when the next
proposal, FF or FQ comes, which the code takes for the receipt of what it sent.  Whether the partner
has the messages cannot be seen from either end.  `Links` is what it depends on: for each pair of BBSs
one of five stages, `Turn`, `Proposed`, `Answered`, `Sending`, `Over`, each a statement about both
streams and what is on its way in both directions, plain text in between (`Carries`).  In `Proposed` the
answers that are ready are to the first proposals (`Notes`), in `Sending` every message of the block is
at the partner or among those it still counts on (`Load` says that as many are on the way).
When one end has gone, a stage no longer exists, but lines it sent are still read; `Awaits` is
the part of a stage that outlives it.  Each action is one of these: a line is read in a stage and leaves
one (lemmas by stage and by kind of line), a step that changes nothing of a stage (`Calm`), an end
that goes.  `TwoMore` says that storing messages for somebody else does no harm.
`Exactness` is for `Whole`: blocks of a message follow one another, a message is only taken up in the
middle where B1 was agreed, and a stream whose data is spoilt still has the checksum before it.
The model was rewritten in three places for the prover, with the same meaning: no `@` inside
another `@`, and the two passes of `ProposalResponse` over the answers as one fold.  The proof made explicit that no
BBS is configured as its own partner and that no BID is the mark for none (`NetworkAssumption`,
`MessageAssumption`).

*Chat.*  A count of `HanksRT.c` may be wrong in two ways: two links count the same node, or
a line takes away what it never added.  `Behind(n, m)` is the part of the network that n can
reach only by way of m; `NodeOK` says that a circuit of n counts only nodes
behind the one it leads to, so that no two circuits count the same, that each of its users counts
once and the node once more, and that everything on the list is here or reached.  That is not
inductive: an unlink for a node takes its last reference only if the leaves of all its users have come
before.  `Way` says so for each session, of the knowledge at one end, the
records at the other and the lines between them: what n knows by the circuit m knows too, or a
leave is on its way; every join that is on its way is still true or is followed by a leave; and before an
unlink are the leaves of everyone there.  A step of a node keeps `NodeOK` and sends what it must (`Tells`),
or takes what it has heard (`Hears`); each routine (`state_tell`, `link_drop`, the lines
of `chkctl`, `node_close`) has a lemma for that.  Nothing is said of a session that has
broken but that its end drops all it reached by it.  The proof made explicit what a network
without loops is (`NetworkAssumption`, `Cut`) and that a leave that is ignored
(`HanksRT.c:1380`) makes counts wrong, which is why `Exact` leaves it out.  `state_tell` writes the lines
of one user after those of the other as a fold, which the code's loop is.

Only model-checked are: liveness, which is out of the prover's reach (no `ENABLED`);
level 2 and level 4 beyond their `Covered`; `NoDup` of forwarding; `Agree` and `Heard` of chat.
`NoDup` holds only of networks in which nobody takes up a transfer while somebody else sends the same
bulletin (`fbb_restart` is the counterexample), so it is no theorem.  `Agree` needs that what all
the nodes know comes to the same along every path, by induction over the network, and `Heard` how far a
text has come.

## Not modelled

The rows of `PROJECT.json` give the reason for each component.  In the modelled
ones:

- level 2: version 1 links, digipeating, compression, the stuck-link dump of `SDETX`,
  buffer exhaustion inside `GetBuff`; at connection links between nodes, SABME, TEST;
- level 3: several fragments, locked entries, excluded and application nodes, quality
  adjustment and normalisation, full tables, the check for queues above 50, nodes
  polls, INP3, NET/ROM over TCP and VARA;
- level 4: compression, fragmentation, several circuits, record route, NCMP and IP;
- BBS: ELSE, PAUSE, TIMES and the delay thread, interlock groups, `SIDResponseTimer`,
  more than one line of input waiting on a stream, excluded users;
- forwarding: B2, MBL and uncompressed transfer, filters, the Winlink dialects, DoReverse
  FALSE, the crash inside a handler, status `$` as something other than `N`;
- chat: names, private messages, polls, the idle timer, consoles, callers that are not
  configured, the limits on streams and on the table of duplicates.  A new call waits
  until the old session of the pair has gone at both ends, and the repair in `node_dec` is made
  once at the end of `link_drop`.

The drivers, the front ends, APRS, IP and the programs for Windows are input and
output, parsing and formatting around the parts above.

## Plan

Done, in this order: `L2Link`, `L2Data`, `Stream` and the first proofs; `L4Entry`,
`L4Circuit`; `BBSStreams`, `BBSSessions`; `L2Connect`; `FBBForward`; `L3Routes`;
`ChatNet`.

What is left:

1. Proofs: `Agree` of `ChatNet`, for which `Way` is the part about one link; `NoDup` of `FBBForward` for networks without its counterexample.
2. `L4Session`: several sessions, `L4CROSSLINK` and `CloseSessionPartner`: closing one side
   closes the other once, no entry is given out twice; an abstract `Circuit` for
   `L4Circuit` to refine, as `Stream` is for level 2.
3. INP3, NETROM over TCP, KISS ACKMODE, routing of mail.

Runs are kept to one for each question.
