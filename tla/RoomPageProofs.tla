--------------------------- MODULE RoomPageProofs ---------------------------
(***************************************************************************)
(* The page stays true to the process it drives, for every number of rooms, *)
(* restarts, connections, commands from other tabs and commands under way. *)
(***************************************************************************)
EXTENDS RoomPage, ChatClientProofs, WellFoundedInduction

-----------------------------------------------------------------------------
(* The inductive invariant.                                                 *)

\* Every field of every record, which the type invariant of the runs leaves to
\* the definitions.
Overlays ==
  [mode : {"pick", "open", "join"}, ticket : Tickets, timedOut : BOOLEAN,
   armed : BOOLEAN, retried : BOOLEAN]

CommandsSent == [cmd : Actions \cup {"leave", "shutdown", "text"}, ticket : Tickets]

PageType ==
  /\ page \in {"landing", "room"} /\ params \in [action : {"open", "join"}, ticket : Tickets]
  /\ client \in ClientsOf(rooms) /\ dismissed \in BOOLEAN /\ overlay \in Overlays

\* Each task that outlived its room had a room of its own, which is over.
StraysHadRooms ==
  strays \in 0 .. rooms /\ (server.room # 0 => strays # rooms)

ProcessType ==
  /\ server \in [up : BOOLEAN, room : {0, rooms}, host : BOOLEAN, ending : BOOLEAN]
  /\ rooms \in 0 .. MaxRooms
  /\ conn \in {"off", "accepted", "live", "dead"}
  /\ cmds \in Seq(CommandsSent) /\ wire \in Seq(FramesOf(rooms))
  /\ StraysHadRooms /\ misled \in BOOLEAN
  /\ server.ending => server.room # 0
  /\ ~server.up => server = Down

\* What a render leaves behind.
Drawn ==
  /\ dismissed => RoomState # "idle"
  /\ ~Shown(client, dismissed) => overlay = FreshOverlay
  /\ TimeoutIsPending

\* The two ends of the connection agree but for a loss the page has not noticed.
\* Until the replay a page is pending, as its address asks.
Connected ==
  /\ client.status = "connected" <=> conn # "off"
  /\ conn = "off" => wire = <<>>
  /\ conn = "accepted" => wire = <<>> /\ RoomState = "pending"
  /\ conn \in {"accepted", "live"} => server.up
  /\ page = "room" /\ client.status = "connecting" =>
       client.action = params.action /\ RoomState = "pending"
  /\ RoomState = "closed" => client.action = "none"

EndFrames    == [type : EndTypes, msg : {0}, ts : {0}, ticket : Nat]
Opens        == {c \in CommandsSent : c.cmd = "open"}
RoomCommands == {c \in CommandsSent : c.cmd # "text"}

EndOnWire    == Among(wire, EndFrames)
OpenAsked    == Among(cmds, Opens)
CommandAsked == Among(cmds, RoomCommands)

\* A page that means to host a room has its command under way, or it hosts the
\* room, or a command under way will end the room it is in.
AskedFor ==
  client.action = "open" =>
    /\ conn = "accepted" => OpenAsked
    /\ conn = "live" /\ ~EndOnWire /\ ~server.ending =>
         /\ server.room = 0 => OpenAsked
         /\ server.room # 0 /\ ~server.host => CommandAsked

PageInv ==
  /\ PageType /\ ProcessType /\ Drawn /\ Connected
  /\ PageFollowsRoom /\ ClosedByHost /\ AskedFor

-----------------------------------------------------------------------------
(* The commands under way and the frames that end a room.                   *)

\* A command joins the queue, or the loop takes one.
LEMMA OneMoreAsked ==
  ASSUME cmds \in Seq(CommandsSent), NEW c \in CommandsSent, cmds' = Append(cmds, c)
  PROVE  /\ OpenAsked' <=> OpenAsked \/ c.cmd = "open"
         /\ CommandAsked' <=> CommandAsked \/ c.cmd # "text"
<1>1. c \in Opens <=> c.cmd = "open"
  BY DEF Opens
<1>2. c \in RoomCommands <=> c.cmd # "text"
  BY DEF RoomCommands
<1>3. /\ Among(cmds', Opens) <=> Among(cmds, Opens) \/ c \in Opens
      /\ Among(cmds', RoomCommands) <=> Among(cmds, RoomCommands) \/ c \in RoomCommands
  BY AmongMore
<1> QED
  BY <1>1, <1>2, <1>3 DEF OpenAsked, CommandAsked

LEMMA OneLessAsked ==
  ASSUME cmds \in Seq(CommandsSent), cmds # <<>>, cmds' = Tail(cmds)
  PROVE  /\ Head(cmds) \in CommandsSent /\ cmds' \in Seq(CommandsSent)
         /\ OpenAsked <=> OpenAsked' \/ Head(cmds).cmd = "open"
         /\ CommandAsked <=> CommandAsked' \/ Head(cmds).cmd # "text"
<1>0. Head(cmds) \in CommandsSent /\ Tail(cmds) \in Seq(CommandsSent)
  BY TailPlaces
<1>1. Head(cmds) \in Opens <=> Head(cmds).cmd = "open"
  BY <1>0 DEF Opens
<1>2. Head(cmds) \in RoomCommands <=> Head(cmds).cmd # "text"
  BY <1>0 DEF RoomCommands
<1>3. /\ Among(cmds, Opens) <=> Head(cmds) \in Opens \/ Among(Tail(cmds), Opens)
      /\ Among(cmds, RoomCommands) <=>
            Head(cmds) \in RoomCommands \/ Among(Tail(cmds), RoomCommands)
  BY AmongLess
<1> QED
  BY <1>0, <1>1, <1>2, <1>3 DEF OpenAsked, CommandAsked

\* The frames that end a room.
LEMMA FrameIs ==
  ASSUME NEW n \in Nat, NEW f \in FramesOf(n)
  PROVE  f \in EndFrames <=> f.type \in EndTypes
  BY DEF FramesOf, EndFrames

-----------------------------------------------------------------------------
(* Rendering, and what is on the screen.                                    *)

\* The page and the state of its hook after a handler or an effect.
LEMMA RenderKeeps ==
  ASSUME PageType, Drawn, NEW n \in Nat, NEW c \in ClientsOf(n), NEW ov \in Overlays,
         ov.armed \/ ov.timedOut => RoomState = "pending" /\ client.status = "connected",
         Render(c, ov)
  PROVE  client' = c /\ dismissed' \in BOOLEAN /\ overlay' \in Overlays /\ Drawn'
<1> DEFINE d == dismissed /\ c.view.roomState # "idle"
<1>1. client' = c /\ dismissed' = d
  BY DEF Render
<1>2. FreshOverlay \in Overlays /\ ~FreshOverlay.armed /\ ~FreshOverlay.timedOut
  BY DEF FreshOverlay, Overlays, Tickets
<1>3. dismissed' \in BOOLEAN /\ (dismissed' => RoomState' # "idle")
  BY <1>1 DEF PageType, RoomState
<1>4. CASE ~Shown(c, d)
  <2>1. overlay' = FreshOverlay
    BY <1>4 DEF Render
  <2> QED
    BY <1>1, <1>2, <1>3, <2>1 DEF Drawn, TimeoutIsPending
<1>5. ASSUME Shown(c, d), NEW mount \in BOOLEAN, NEW o \in Overlays,
             o.armed \/ o.timedOut => RoomState = "pending" /\ client.status = "connected",
             overlay' = Rendered(o, mount, client, c)
      PROVE  overlay' \in Overlays /\ Drawn'
  <2> DEFINE form == IF c.view.roomState # "idle" /\ (mount \/ client.view.roomState = "idle")
                     THEN [o EXCEPT !.mode = "pick", !.ticket = "none"] ELSE o
             fresh == [form EXCEPT !.timedOut = FALSE, !.retried = FALSE,
                         !.armed = c.view.roomState = "pending" /\ c.status = "connected"]
  <2>1. form \in Overlays /\ form.armed = o.armed /\ form.timedOut = o.timedOut
    BY <1>5 DEF Overlays, Tickets
  <2>2. overlay' = IF mount \/ TimerRestarts(client, c) THEN fresh ELSE form
    BY <1>5 DEF Rendered
  <2> HIDE DEF form
  <2>3. /\ fresh \in Overlays /\ ~fresh.timedOut
        /\ fresh.armed => c.view.roomState = "pending" /\ c.status = "connected"
    BY <2>1 DEF Overlays
  <2> HIDE DEF fresh
  <2>4. overlay' \in Overlays
    BY <2>1, <2>2, <2>3
  <2>5. overlay'.armed \/ overlay'.timedOut =>
          c.view.roomState = "pending" /\ c.status = "connected"
    <3>1. CASE mount \/ TimerRestarts(client, c)
      BY <2>2, <2>3, <3>1
    <3>2. CASE ~(mount \/ TimerRestarts(client, c))
      BY <1>5, <2>1, <2>2, <3>2 DEF TimerRestarts, RoomState
    <3> QED
      BY <3>1, <3>2
  <2>6. Shown(client', dismissed')
    BY <1>1, <1>5
  <2> QED
    BY <1>1, <1>3, <2>4, <2>5, <2>6 DEF Drawn, TimeoutIsPending, RoomState
<1>6. CASE Shown(c, d)
  <2>1. CASE Shown(client, dismissed)
    <3>1. overlay' = Rendered(ov, FALSE, client, c)
      BY <1>6, <2>1 DEF Render
    <3> QED
      BY <1>1, <1>3, <1>5, <1>6, <3>1
  <2>2. CASE ~Shown(client, dismissed)
    <3>1. overlay' = Rendered(FreshOverlay, TRUE, client, c)
      BY <1>6, <2>2 DEF Render
    <3> QED
      BY <1>1, <1>2, <1>3, <1>5, <1>6, <3>1
  <2> QED
    BY <2>1, <2>2
<1> QED
  BY <1>1, <1>2, <1>3, <1>4, <1>6 DEF Render

\* A handler that leaves the overlay alone.
LEMMA HandlerRenders ==
  ASSUME PageType, Drawn, NEW n \in Nat, NEW c \in ClientsOf(n), Render(c, overlay)
  PROVE  client' = c /\ dismissed' \in BOOLEAN /\ overlay' \in Overlays /\ Drawn'
<1>1. overlay \in Overlays
  BY DEF PageType
<1>2. overlay.armed \/ overlay.timedOut => RoomState = "pending" /\ client.status = "connected"
  BY DEF Drawn, TimeoutIsPending
<1> QED
  BY <1>1, <1>2, RenderKeeps

LEMMA OffersAre ==
  /\ Offers # {} => page # "landing"
  /\ "shutdown" \in Offers => page # "landing" /\ client.action = "open"
  /\ "enter" \in Offers => RoomState = "ready"
  /\ "formOpen" \in Offers => RoomState = "idle" /\ CanSend(client)
  /\ "formJoin" \in Offers => RoomState = "idle" /\ CanSend(client)
  /\ "retry" \in Offers => overlay.timedOut
  /\ \A o \in {"openForm", "joinForm", "formBack", "paste"} :
       o \in Offers => Shown(client, dismissed) /\ RoomState = "idle"
<1>1. /\ Offers # {} => page # "landing"
      /\ "shutdown" \in Offers => page # "landing" /\ client.action = "open"
  BY DEF Offers, OverlayOffers, ChatOffers
<1>2. "enter" \in Offers => RoomState = "ready"
  BY DEF Offers, OverlayOffers, ChatOffers, RoomState
<1>3. /\ "formOpen" \in Offers => RoomState = "idle" /\ CanSend(client)
      /\ "formJoin" \in Offers => RoomState = "idle" /\ CanSend(client)
  BY DEF Offers, OverlayOffers, ChatOffers, RoomState
<1>4. "retry" \in Offers => overlay.timedOut
  BY DEF Offers, OverlayOffers, ChatOffers
<1>5. \A o \in {"openForm", "joinForm", "formBack", "paste"} :
       o \in Offers => Shown(client, dismissed) /\ RoomState = "idle"
  BY DEF Offers, OverlayOffers, ChatOffers, RoomState
<1> QED
  BY <1>1, <1>2, <1>3, <1>4, <1>5

-----------------------------------------------------------------------------
(* The steps, by what becomes of the connection.                            *)

\* Without a connection there is nothing to keep up with.
LEMMA OffKeeps ==
  ASSUME PageType', ProcessType', Drawn', conn' = "off", wire' = <<>>,
         client'.status # "connected",
         page' = "room" /\ client'.status = "connecting" =>
           client'.action = params'.action /\ RoomState' = "pending",
         RoomState' = "closed" => client'.action = "none"
  PROVE  PageInv'
<1>1. Connected'
  BY DEF Connected
<1> QED
  BY <1>1 DEF PageInv, PageFollowsRoom, ClosedByHost, AskedFor

LEMMA PageStays ==
  ASSUME PageInv, UNCHANGED pageVars, rooms' \in {rooms, rooms + 1}
  PROVE  PageType' /\ Drawn'
<1>1. rooms \in Nat /\ client \in ClientsOf(rooms)
  BY PageAssumption DEF PageInv, PageType, ProcessType
<1>2. client' \in ClientsOf(rooms')
  BY <1>1, MoreRooms DEF pageVars
<1> QED
  BY <1>2 DEF PageInv, PageType, Drawn, TimeoutIsPending, RoomState, pageVars

LEMMA DeadKeeps ==
  ASSUME PageInv, ProcessType', UNCHANGED pageVars, rooms' = rooms,
         conn # "off", conn' = "dead"
  PROVE  PageInv'
<1>1. PageType' /\ Drawn'
  BY PageStays
<1>2. Connected'
  BY DEF PageInv, Connected, RoomState, pageVars
<1> QED
  BY <1>1, <1>2 DEF PageInv, PageFollowsRoom, ClosedByHost, AskedFor

\* A connection that is off stays off while the process goes on.
LEMMA StillOff ==
  ASSUME PageInv, ProcessType', UNCHANGED pageVars, rooms' \in {rooms, rooms + 1},
         conn = "off", UNCHANGED <<conn, wire>>
  PROVE  PageInv'
<1>1. PageType' /\ Drawn'
  BY PageStays
<1>2. wire' = <<>> /\ client'.status # "connected"
  BY DEF PageInv, Connected, pageVars
<1>3. /\ page' = "room" /\ client'.status = "connecting" =>
           client'.action = params'.action /\ RoomState' = "pending"
      /\ RoomState' = "closed" => client'.action = "none"
  BY DEF PageInv, Connected, RoomState, pageVars
<1> QED
  BY <1>1, <1>2, <1>3, OffKeeps

\* Steps of the page that leave connection and hook alone, but may send.
LEMMA PageAloneKeeps ==
  ASSUME PageInv, UNCHANGED <<page, params, client, conn, wire, procVars>>,
         overlay' \in Overlays, dismissed' \in BOOLEAN, Drawn',
         cmds' = cmds \/ \E c \in CommandsSent : cmds' = Append(cmds, c)
  PROVE  PageInv'
<1> USE DEF procVars
<1>1. cmds' \in Seq(CommandsSent)
  BY DEF PageInv, ProcessType
<1>2. PageType' /\ ProcessType' /\ Connected'
  <2>1. StraysHadRooms'
    BY DEF PageInv, ProcessType, StraysHadRooms
  <2> QED
    BY <1>1, <2>1 DEF PageInv, PageType, ProcessType, Connected, RoomState
<1>3. (OpenAsked => OpenAsked') /\ (CommandAsked => CommandAsked')
  BY OneMoreAsked DEF PageInv, ProcessType, OpenAsked, CommandAsked
<1>4. PageFollowsRoom' /\ ClosedByHost'
  BY DEF PageInv, PageFollowsRoom, ClosedByHost, RoomState
<1>5. EndOnWire' = EndOnWire
  BY DEF EndOnWire
<1>6. AskedFor'
  BY <1>3, <1>5 DEF PageInv, AskedFor
<1> QED
  BY <1>2, <1>4, <1>6 DEF PageInv

-----------------------------------------------------------------------------
(* The user.                                                                *)

LEMMA MountKeeps ==
  ASSUME PageInv, NEW p \in [action : {"open", "join"}, ticket : Tickets], Mount(p),
         UNCHANGED <<cmds, procVars>>
  PROVE  PageInv'
<1> DEFINE c == Connecting(p.action)
<1>1. rooms \in Nat /\ p.action \in Actions
  BY PageAssumption DEF PageInv, ProcessType, Actions
<1>2. /\ c \in ClientsOf(rooms) /\ c.view.roomState = "pending"
      /\ c.status = "connecting" /\ c.action = p.action
  BY <1>1, ConnectingIs
<1>3. /\ page' = "room" /\ params' = p /\ client' = c /\ dismissed' = FALSE
      /\ overlay' = FreshOverlay /\ conn' = "off" /\ wire' = <<>>
  BY DEF Mount
<1> HIDE DEF c
<1>4. FreshOverlay \in Overlays /\ ~FreshOverlay.armed /\ ~FreshOverlay.timedOut
  BY DEF FreshOverlay, Overlays, Tickets
<1>5. PageType' /\ Drawn'
  BY <1>2, <1>3, <1>4 DEF PageType, Drawn, TimeoutIsPending, procVars
<1>6. ProcessType'
  BY <1>3 DEF PageInv, ProcessType, procVars, StraysHadRooms
<1> QED
  BY <1>2, <1>3, <1>5, <1>6, OffKeeps DEF RoomState

LEMMA UnmountKeeps ==
  ASSUME PageInv, Unmount, UNCHANGED procVars, cmds' \in Seq(CommandsSent)
  PROVE  PageInv'
<1> DEFINE c == Connecting("none")
<1>1. rooms \in Nat /\ "none" \in Actions
  BY PageAssumption DEF PageInv, ProcessType, Actions
<1>2. /\ c \in ClientsOf(rooms) /\ c.view.roomState = "pending" /\ c.status = "connecting"
  BY <1>1, ConnectingIs
<1>3. /\ page' = "landing" /\ params' = [action |-> "open", ticket |-> "none"]
      /\ client' = c /\ dismissed' = FALSE
      /\ overlay' = FreshOverlay /\ conn' = "off" /\ wire' = <<>>
  BY DEF Unmount
<1> HIDE DEF c
<1>4. FreshOverlay \in Overlays /\ ~FreshOverlay.armed /\ ~FreshOverlay.timedOut
  BY DEF FreshOverlay, Overlays, Tickets
<1>5. PageType' /\ Drawn'
  BY <1>2, <1>3, <1>4 DEF PageType, Drawn, TimeoutIsPending, procVars, Tickets
<1>6. ProcessType'
  BY <1>3 DEF PageInv, ProcessType, procVars, StraysHadRooms
<1> QED
  BY <1>2, <1>3, <1>5, <1>6, OffKeeps DEF RoomState

LEMMA ReconnectKeeps ==
  ASSUME PageInv, Reconnect
  PROVE  PageInv'
<1> DEFINE c == Connecting(params.action)
<1>1. rooms \in Nat /\ params.action \in Actions
  BY PageAssumption DEF PageInv, PageType, ProcessType, Actions
<1>2. /\ c \in ClientsOf(rooms) /\ c.view.roomState = "pending"
      /\ c.status = "connecting" /\ c.action = params.action
  BY <1>1, ConnectingIs
<1>3. Render(c, overlay) /\ conn' = "off" /\ wire' = <<>>
      /\ UNCHANGED <<page, params, cmds, procVars>>
  BY DEF Reconnect
<1> HIDE DEF c
<1>4. client' = c /\ dismissed' \in BOOLEAN /\ overlay' \in Overlays /\ Drawn'
  BY <1>1, <1>2, <1>3, HandlerRenders DEF PageInv
<1>5. PageType' /\ ProcessType'
  BY <1>2, <1>3, <1>4 DEF PageInv, PageType, ProcessType, procVars, StraysHadRooms
<1> QED
  BY <1>2, <1>3, <1>4, <1>5, OffKeeps DEF RoomState

LEMMA EnterKeeps ==
  ASSUME PageInv, EnterChat
  PROVE  PageInv'
<1>1. /\ RoomState = "ready" /\ dismissed' = TRUE /\ overlay' = FreshOverlay
      /\ UNCHANGED <<page, params, client, netVars, procVars>>
  BY OffersAre DEF EnterChat
<1>2. FreshOverlay \in Overlays /\ ~FreshOverlay.armed /\ ~FreshOverlay.timedOut
  BY DEF FreshOverlay, Overlays, Tickets
<1>3. Drawn'
  BY <1>1, <1>2 DEF Drawn, TimeoutIsPending, RoomState
<1> QED
  BY <1>1, <1>2, <1>3, PageAloneKeeps DEF netVars

LEMMA FillKeeps ==
  ASSUME PageInv, NEW o \in {"openForm", "joinForm", "formBack", "paste"},
         NEW mode \in {"pick", "open", "join"}, NEW ticket \in Tickets, Fill(o, mode, ticket)
  PROVE  PageInv'
<1>1. /\ Shown(client, dismissed) /\ RoomState = "idle"
      /\ overlay' = [overlay EXCEPT !.mode = mode, !.ticket = ticket]
      /\ UNCHANGED <<page, params, client, dismissed, netVars, procVars>>
  BY OffersAre DEF Fill
<1>2. /\ overlay' \in Overlays
      /\ overlay'.armed = overlay.armed /\ overlay'.timedOut = overlay.timedOut
  BY <1>1 DEF PageInv, PageType, Overlays
<1>3. Drawn'
  BY <1>1, <1>2 DEF PageInv, Drawn, TimeoutIsPending, RoomState
<1> QED
  BY <1>1, <1>2, <1>3, PageAloneKeeps DEF netVars, PageInv, PageType

LEMMA SayKeeps ==
  ASSUME PageInv, NEW o, NEW cmd \in {"leave", "text"}, Say(o, cmd)
  PROVE  PageInv'
<1>1. /\ cmds' = cmds \/ cmds' = Append(cmds, Command(cmd, "none"))
      /\ UNCHANGED <<pageVars, conn, wire, procVars>>
  BY DEF Say, Send
<1>2. Command(cmd, "none") \in CommandsSent
  BY DEF Command, CommandsSent, Tickets
<1>3. overlay' \in Overlays /\ dismissed' \in BOOLEAN /\ Drawn'
  BY <1>1 DEF PageInv, PageType, Drawn, TimeoutIsPending, RoomState, pageVars
<1> QED
  BY <1>1, <1>2, <1>3, PageAloneKeeps DEF pageVars

LEMMA TimerKeeps ==
  ASSUME PageInv, TimerFires
  PROVE  PageInv'
<1>1. /\ overlay.armed /\ overlay' = [overlay EXCEPT !.timedOut = TRUE, !.armed = FALSE]
      /\ UNCHANGED <<page, params, client, dismissed, netVars, procVars>>
  BY DEF TimerFires
<1>2. overlay' \in Overlays /\ RoomState = "pending" /\ client.status = "connected"
  BY <1>1 DEF PageInv, PageType, Overlays, Drawn, TimeoutIsPending
<1>3. Shown(client, dismissed)
  BY <1>1 DEF PageInv, Drawn, FreshOverlay
<1>4. Drawn'
  BY <1>1, <1>2, <1>3 DEF PageInv, Drawn, TimeoutIsPending, RoomState
<1> QED
  BY <1>1, <1>2, <1>4, PageAloneKeeps DEF netVars, PageInv, PageType

\* A new room is asked for on an open connection: the page waits, whatever it
\* read before, and the command is under way unless the connection is gone.
LEMMA AskKeeps ==
  ASSUME PageInv, NEW action \in Actions, NEW ticket \in Tickets, NEW ov \in Overlays,
         RoomState \in {"idle", "pending"}, CanSend(client), Ask(action, ticket, ov),
         ov.armed \/ ov.timedOut => RoomState = "pending" /\ client.status = "connected"
  PROVE  PageInv'
<1> DEFINE c == Starts(client, action)
<1>1. rooms \in Nat /\ client \in ClientsOf(rooms)
  BY PageAssumption DEF PageInv, PageType, ProcessType
<1>2. /\ c \in ClientsOf(rooms) /\ c.view.roomState = "pending"
      /\ c.status = "connected" /\ c.action = action
  BY <1>1, StartsIs
<1>3. /\ Render(c, ov) /\ UNCHANGED <<page, params, conn, wire, procVars>>
      /\ cmds' = IF conn = "dead" THEN cmds ELSE Append(cmds, Command(action, ticket))
  BY DEF Ask, Send
<1> HIDE DEF c
<1>4. client' = c /\ dismissed' \in BOOLEAN /\ overlay' \in Overlays /\ Drawn'
  BY <1>1, <1>2, <1>3, RenderKeeps DEF PageInv
<1>5. Command(action, ticket) \in CommandsSent /\ Command(action, ticket).cmd = action
      /\ Command(action, ticket).ticket = ticket
  BY DEF Command, CommandsSent
<1>6. PageType' /\ ProcessType'
  <2>1. cmds' \in Seq(CommandsSent)
    BY <1>3, <1>5 DEF PageInv, ProcessType
  <2> QED
    BY <1>2, <1>3, <1>4, <2>1 DEF PageInv, PageType, ProcessType, procVars, StraysHadRooms
<1>7. Connected'
  BY <1>2, <1>3, <1>4 DEF PageInv, Connected, RoomState, CanSend, procVars
<1>8. PageFollowsRoom' /\ ClosedByHost'
  <2>1. /\ ReadyAfter(RoomState', wire) <=> ReadyAfter(RoomState, wire)
        /\ ClosedAfter(RoomState', wire) <=> ClosedAfter(RoomState, wire)
    <3>1. RoomState' = "pending"
      BY <1>2, <1>4 DEF RoomState
    <3> QED
      BY <3>1, NotReadyAlike
  <2> QED
    BY <1>3, <2>1 DEF PageInv, PageFollowsRoom, ClosedByHost, procVars
<1>9. AskedFor'
  <2>1. ASSUME action = "open", conn # "dead" PROVE OpenAsked' /\ CommandAsked'
    BY <1>3, <1>5, <2>1, OneMoreAsked DEF PageInv, ProcessType
  <2> QED
    BY <1>2, <1>3, <1>4, <2>1 DEF AskedFor
<1> QED
  BY <1>4, <1>6, <1>7, <1>8, <1>9 DEF PageInv

LEMMA UserKeeps ==
  ASSUME PageInv, User
  PROVE  PageInv'
<1>1. CASE Visit
  <2>1. PICK p \in [action : {"open", "join"}, ticket : Tickets] :
          Mount(p) /\ UNCHANGED <<cmds, procVars>>
    BY <1>1 DEF Visit, SubmitForm, JoinListed, Tickets, Pasted
  <2> QED
    BY <2>1, MountKeeps
<1>2. CASE Reload
  BY <1>2, MountKeeps DEF Reload, PageInv, PageType
<1>3. CASE ToStart
  BY <1>3, UnmountKeeps DEF ToStart, PageInv, ProcessType
<1>4. CASE ShutdownClicked
  <2>1. Command("shutdown", "none") \in CommandsSent
    BY DEF Command, CommandsSent, Tickets
  <2>2. cmds \in Seq(CommandsSent)
    BY DEF PageInv, ProcessType
  <2>3. cmds' \in {cmds, Append(cmds, Command("shutdown", "none"))}
    BY <1>4 DEF ShutdownClicked, Send
  <2>4. cmds' \in Seq(CommandsSent)
    BY <2>1, <2>2, <2>3, AppendedPlaces
  <2> QED
    BY <1>4, <2>4, UnmountKeeps DEF ShutdownClicked
<1>5. CASE Reconnect
  BY <1>5, ReconnectKeeps
<1>6. CASE EnterChat
  BY <1>6, EnterKeeps
<1>7. CASE FillForm
  <2>1. overlay.ticket \in Tickets
    BY DEF PageInv, PageType, Overlays
  <2> QED
    BY <1>7, <2>1, FillKeeps DEF FillForm, Tickets, Pasted
<1>8. CASE FormOpen \/ FormJoin
  <2>1. /\ overlay \in Overlays /\ overlay.ticket \in Tickets /\ "none" \in Tickets
        /\ "open" \in Actions /\ "join" \in Actions
        /\ overlay.armed \/ overlay.timedOut => RoomState = "pending" /\ client.status = "connected"
    BY DEF PageInv, PageType, Overlays, Tickets, Actions, Drawn, TimeoutIsPending
  <2> QED
    BY <1>8, <2>1, AskKeeps, OffersAre DEF FormOpen, FormJoin
<1>9. CASE Retry
  <2> DEFINE ov == [overlay EXCEPT !.timedOut = FALSE, !.retried = TRUE]
  <2>1. /\ overlay.timedOut /\ Ask(client.action, overlay.ticket, ov)
    BY <1>9, OffersAre DEF Retry
  <2>2. RoomState = "pending" /\ client.status = "connected" /\ CanSend(client)
    BY <2>1 DEF PageInv, Drawn, TimeoutIsPending, CanSend
  <2>3. ov \in Overlays /\ overlay.ticket \in Tickets /\ client.action \in Actions
    BY DEF PageInv, PageType, Overlays, ClientsOf
  <2> HIDE DEF ov
  <2> QED
    BY <2>1, <2>2, <2>3, AskKeeps
<1>10. CASE Say("leave", "leave") \/ Say("text", "text")
  BY <1>10, SayKeeps
<1> QED
  BY <1>1, <1>2, <1>3, <1>4, <1>5, <1>6, <1>7, <1>8, <1>9, <1>10 DEF User

-----------------------------------------------------------------------------
(* The socket.                                                              *)

LEMMA HandshakeKeeps ==
  ASSUME PageInv, Handshake
  PROVE  PageInv'
<1> DEFINE c == Opened(client)
           m == Command(params.action, params.ticket)
<1>1. rooms \in Nat /\ client \in ClientsOf(rooms)
  BY PageAssumption DEF PageInv, PageType, ProcessType
<1>2. /\ c \in ClientsOf(rooms) /\ c.view = client.view
      /\ c.status = "connected" /\ c.action = client.action
  BY <1>1, OpenedIs
<1>3. /\ page = "room" /\ client.status = "connecting" /\ conn = "off" /\ server.up
      /\ conn' = "accepted" /\ Render(c, overlay) /\ cmds' = Append(cmds, m)
      /\ UNCHANGED <<page, params, wire, procVars>>
  BY DEF Handshake, Send
<1>4. m \in CommandsSent /\ m.cmd = params.action
  BY DEF Command, CommandsSent, PageInv, PageType, Actions
<1> HIDE DEF c, m
<1>5. client' = c /\ dismissed' \in BOOLEAN /\ overlay' \in Overlays /\ Drawn'
  BY <1>1, <1>2, <1>3, HandlerRenders DEF PageInv
<1>6. PageType' /\ ProcessType'
  <2>1. cmds' \in Seq(CommandsSent)
    BY <1>3, <1>4 DEF PageInv, ProcessType
  <2> QED
    BY <1>2, <1>3, <1>5, <2>1 DEF PageInv, PageType, ProcessType, procVars, StraysHadRooms
<1>7. /\ wire' = <<>> /\ RoomState' = "pending" /\ client'.action = params.action
      /\ client'.status = "connected"
  BY <1>2, <1>3, <1>5 DEF PageInv, Connected, RoomState
<1>8. Connected'
  BY <1>3, <1>7 DEF Connected, procVars
<1>9. PageFollowsRoom' /\ ClosedByHost'
  BY <1>3 DEF PageFollowsRoom, ClosedByHost
<1>10. AskedFor'
  <2>1. client'.action = "open" => OpenAsked'
    BY <1>3, <1>4, <1>7, OneMoreAsked DEF PageInv, ProcessType
  <2> QED
    BY <1>3, <2>1 DEF AskedFor
<1> QED
  BY <1>5, <1>6, <1>8, <1>9, <1>10 DEF PageInv

\* The snapshot of the replay says what the process is in, and nothing is on the
\* wire before it.
LEMMA ReplayKeeps ==
  ASSUME PageInv, Replay
  PROVE  PageInv'
<1> DEFINE done == Event("history_complete")
<1>1. /\ conn = "accepted" /\ conn' = "live" /\ wire = <<>> /\ RoomState = "pending"
      /\ wire' = wire \o Append(Greeting, done) /\ misled' = FALSE
      /\ UNCHANGED <<pageVars, cmds, server, rooms, strays, ended>>
  BY DEF Replay, PageInv, Connected
<1>2. rooms \in Nat /\ done \in FramesOf(rooms) /\ done.type = "history_complete"
      /\ Event("room_joined") \in FramesOf(rooms) /\ RoomReady(rooms) \in FramesOf(rooms)
      /\ Event("room_joined").type = "room_joined" /\ RoomReady(rooms).type = "room_ready"
  BY FramesAre, PageAssumption DEF PageInv, ProcessType
<1> HIDE DEF done
<1>3. \/ server.room = 0 /\ Greeting = <<>>
      \/ \E f \in FramesOf(rooms) : server.room # 0 /\ f.type \in SetUpTypes /\ Greeting = <<f>>
  BY <1>2 DEF Greeting, PageInv, ProcessType, SetUpTypes
<1>4. Greeting \in Seq(FramesOf(rooms))
  <2>1. <<>> \in Seq(FramesOf(rooms)) /\ \A f \in FramesOf(rooms) : <<f>> \in Seq(FramesOf(rooms))
    OBVIOUS
  <2> QED
    BY <1>3, <2>1
<1>5. wire' = Append(Greeting, done) /\ wire' \in Seq(FramesOf(rooms))
  BY <1>1, <1>2, <1>4
<1>6. /\ ReadyAfter("pending", Greeting) <=> server.room # 0
      /\ ~ClosedAfter("pending", Greeting) /\ ~Among(Greeting, EndFrames)
  <2>1. CASE Greeting = <<>>
    BY <1>3, <2>1, NothingToRead, NoneAmong
  <2>2. ASSUME NEW f \in FramesOf(rooms), server.room # 0, f.type \in SetUpTypes, Greeting = <<f>>
        PROVE  <1>6
    <3>1. Greeting = Append(<<>>, f) /\ <<>> \in Seq(FramesOf(rooms))
      BY <2>2
    <3>2. f.type # "room_closed" /\ f.type \notin EndTypes
      BY <2>2 DEF SetUpTypes, EndTypes
    <3>3. f \notin EndFrames
      BY <1>2, <3>2, FrameIs
    <3>4. /\ ReadyAfter("pending", Append(<<>>, f)) /\ ~ClosedAfter("pending", Append(<<>>, f))
          /\ ~Among(Append(<<>>, f), EndFrames)
      BY <2>2, <3>1, <3>2, <3>3, OneMoreFrame, AmongMore, NoneAmong
    <3> QED
      BY <2>2, <3>1, <3>4
  <2> QED
    BY <1>3, <2>1, <2>2
<1>7. done.type \notin SetUpTypes /\ done.type \notin EndTypes /\ done.type # "room_closed"
  BY <1>2 DEF SetUpTypes, EndTypes
<1>8. /\ ReadyAfter("pending", wire') <=> server.room # 0
      /\ ~ClosedAfter("pending", wire') /\ ~Among(wire', EndFrames)
  BY <1>2, <1>4, <1>5, <1>6, <1>7, OneMoreFrame, AmongMore, FrameIs
<1>9. PageType' /\ Drawn'
  BY <1>1, PageStays
<1>10. ProcessType'
  BY <1>1, <1>5 DEF PageInv, ProcessType, StraysHadRooms
<1>11. RoomState' = "pending" /\ client' = client /\ client'.status = "connected"
  BY <1>1 DEF RoomState, pageVars, PageInv, Connected
<1>12. Connected'
  BY <1>1, <1>11 DEF PageInv, Connected, RoomState, pageVars
<1>13. PageFollowsRoom' /\ ClosedByHost'
  BY <1>1, <1>8, <1>11 DEF PageFollowsRoom, ClosedByHost
<1>14. AskedFor'
  <2>1. OpenAsked => CommandAsked
    BY DEF OpenAsked, CommandAsked, Among, Opens, RoomCommands
  <2>2. OpenAsked' = OpenAsked /\ CommandAsked' = CommandAsked
    BY <1>1 DEF OpenAsked, CommandAsked
  <2> QED
    BY <1>1, <1>11, <2>1, <2>2 DEF PageInv, AskedFor
<1> QED
  BY <1>9, <1>10, <1>12, <1>13, <1>14 DEF PageInv

LEMMA ReceiveKeeps ==
  ASSUME PageInv, Receive
  PROVE  PageInv'
<1> DEFINE f == Head(wire)
           c == Deliver(client, f)
<1>1. rooms \in Nat /\ client \in ClientsOf(rooms) /\ wire \in Seq(FramesOf(rooms))
  BY PageAssumption DEF PageInv, PageType, ProcessType
<1>2. /\ page = "room" /\ client.status = "connected" /\ wire # <<>> /\ wire' = Tail(wire)
      /\ Render(c, overlay) /\ UNCHANGED <<page, params, conn, cmds, procVars>>
  BY DEF Receive
<1>3. f \in FramesOf(rooms) /\ wire' \in Seq(FramesOf(rooms))
  BY <1>1, <1>2, TailPlaces
<1>4. /\ ReadyAfter(RoomStateAfter(RoomState, f), wire') <=> ReadyAfter(RoomState, wire)
      /\ ClosedAfter(RoomStateAfter(RoomState, f), wire') <=> ClosedAfter(RoomState, wire)
  BY <1>1, <1>2, OneFrameRead
<1>5. Among(wire, EndFrames) <=> f.type \in EndTypes \/ Among(wire', EndFrames)
  BY <1>1, <1>2, <1>3, AmongLess, FrameIs
<1> HIDE DEF f
<1>6. /\ c \in ClientsOf(rooms) /\ c.status = "connected"
      /\ c.view.roomState = RoomStateAfter(RoomState, f) /\ c.action = ActionOn(client, f)
  BY <1>1, <1>2, <1>3, DeliverIs DEF RoomState
<1> HIDE DEF c
<1>7. client' = c /\ dismissed' \in BOOLEAN /\ overlay' \in Overlays /\ Drawn'
  BY <1>1, <1>2, <1>6, HandlerRenders DEF PageInv
<1>8. PageType' /\ ProcessType'
  BY <1>2, <1>3, <1>6, <1>7 DEF PageInv, PageType, ProcessType, procVars, StraysHadRooms
<1>9. /\ RoomState' = RoomStateAfter(RoomState, f)
      /\ client'.action = "open" => client.action = "open" /\ f.type \notin EndTypes
      /\ RoomState' = "closed" => client'.action = "none"
  BY <1>6, <1>7 DEF PageInv, Connected, RoomState, RoomStateAfter, ActionOn, SetUpTypes, EndTypes
<1>10. Connected'
  BY <1>2, <1>6, <1>7, <1>9 DEF PageInv, Connected, procVars
<1>11. PageFollowsRoom' /\ ClosedByHost'
  BY <1>2, <1>4, <1>9 DEF PageInv, PageFollowsRoom, ClosedByHost, procVars
<1>12. AskedFor'
  <2>1. OpenAsked' = OpenAsked /\ CommandAsked' = CommandAsked
    BY <1>2 DEF OpenAsked, CommandAsked
  <2>2. client'.action = "open" => (EndOnWire' <=> EndOnWire)
    BY <1>5, <1>9 DEF EndOnWire
  <2> QED
    BY <1>2, <1>9, <2>1, <2>2 DEF PageInv, AskedFor, procVars
<1> QED
  BY <1>7, <1>8, <1>10, <1>11, <1>12 DEF PageInv

LEMMA SocketClosesKeeps ==
  ASSUME PageInv, SocketCloses
  PROVE  PageInv'
<1> DEFINE c == Closed(client)
<1>1. rooms \in Nat /\ client \in ClientsOf(rooms)
  BY PageAssumption DEF PageInv, PageType, ProcessType
<1>2. /\ c \in ClientsOf(rooms) /\ c.view = client.view
      /\ c.status = "disconnected" /\ c.action = client.action
  BY <1>1, ClosedIs
<1>3. /\ Render(c, overlay) /\ conn' = "off" /\ wire' = <<>>
      /\ UNCHANGED <<page, params, cmds, procVars>>
  BY DEF SocketCloses
<1> HIDE DEF c
<1>4. client' = c /\ dismissed' \in BOOLEAN /\ overlay' \in Overlays /\ Drawn'
  BY <1>1, <1>2, <1>3, HandlerRenders DEF PageInv
<1>5. PageType' /\ ProcessType'
  BY <1>2, <1>3, <1>4 DEF PageInv, PageType, ProcessType, procVars, StraysHadRooms
<1>6. RoomState' = "closed" => client'.action = "none"
  BY <1>2, <1>4 DEF PageInv, Connected, RoomState
<1> QED
  BY <1>2, <1>3, <1>4, <1>5, <1>6, OffKeeps

-----------------------------------------------------------------------------
(* The process.                                                             *)

\* The loop sets up a room for a page whose own command, if it wants to host, is
\* still under way: a room to host, or one that command will end.
LEMMA StartKeeps ==
  ASSUME PageInv, NEW h \in BOOLEAN, StartRoom(h), server.up,
         UNCHANGED pageVars, conn' = conn, cmds' \in Seq(CommandsSent),
         client.action = "open" =>
           /\ conn = "accepted" => OpenAsked'
           /\ conn = "live" /\ ~EndOnWire /\ ~h => CommandAsked'
  PROVE  PageInv'
<1> DEFINE f == IF h THEN RoomReady(rooms + 1) ELSE Event("room_joined")
<1>1. rooms \in Nat /\ rooms + 1 \in Nat /\ rooms < MaxRooms
  BY PageAssumption DEF PageInv, ProcessType, StartRoom
<1>2. f \in FramesOf(rooms + 1) /\ f.type \in SetUpTypes
  BY <1>1, FramesAre DEF SetUpTypes
<1>3. wire \in Seq(FramesOf(rooms + 1))
  BY <1>1, MoreRooms DEF PageInv, ProcessType
<1>4. wire' = IF conn = "live" THEN wire \o <<f>> ELSE wire
  BY DEF StartRoom, Tell
<1> HIDE DEF f
<1>5. wire' = IF conn = "live" THEN Append(wire, f) ELSE wire
  BY <1>2, <1>3, <1>4, OneIsAppended
<1>6. /\ rooms' = rooms + 1 /\ ended' = "none" /\ strays' = strays /\ misled' = FALSE
      /\ server' = [up |-> TRUE, room |-> rooms + 1, host |-> h, ending |-> FALSE]
  BY DEF StartRoom, Idle, Down
<1>7. ProcessType'
  <2>1. wire' \in Seq(FramesOf(rooms'))
    BY <1>2, <1>3, <1>5, <1>6, AppendedPlaces
  <2>2. rooms' \in 0 .. MaxRooms
    BY <1>1, <1>6, PageAssumption
  <2>3. server' \in [up : BOOLEAN, room : {0, rooms'}, host : BOOLEAN, ending : BOOLEAN]
        /\ server'.up /\ ~server'.ending
    BY <1>6
  <2>4. StraysHadRooms'
    <3>1. strays \in 0 .. rooms /\ strays' = strays /\ rooms' = rooms + 1
      BY <1>6 DEF PageInv, ProcessType, StraysHadRooms
    <3>2. strays' \in 0 .. rooms' /\ strays' # rooms'
      BY <1>1, <3>1
    <3> QED
      BY <3>2 DEF StraysHadRooms
  <2>5. misled' \in BOOLEAN /\ conn' \in {"off", "accepted", "live", "dead"}
    BY <1>6 DEF PageInv, ProcessType
  <2> QED
    BY <2>1, <2>2, <2>3, <2>4, <2>5 DEF ProcessType
<1>8. PageType' /\ Drawn'
  BY <1>6, PageStays
<1>9. f.type \notin EndTypes /\ f.type # "room_closed" /\ f \notin EndFrames
  BY <1>1, <1>2, FrameIs DEF SetUpTypes, EndTypes
<1>10. conn = "live" => ReadyAfter(RoomState, wire') /\ ~ClosedAfter(RoomState, wire')
  <2>1. ReadyAfter(RoomState, Append(wire, f)) /\ ~ClosedAfter(RoomState, Append(wire, f))
    BY <1>2, <1>3, <1>9, OneMoreFrame
  <2> QED
    BY <1>5, <2>1
<1>11. EndOnWire' <=> EndOnWire
  <2>1. Among(Append(wire, f), EndFrames) <=> Among(wire, EndFrames)
    BY <1>2, <1>3, <1>9, AmongMore
  <2> QED
    BY <1>5, <2>1 DEF EndOnWire
<1>12. Connected'
  BY <1>5, <1>6 DEF PageInv, Connected, RoomState, pageVars
<1>13. RoomState' = RoomState /\ client' = client
  BY DEF RoomState, pageVars
<1>14. PageFollowsRoom' /\ ClosedByHost'
  BY <1>1, <1>6, <1>10, <1>13 DEF PageFollowsRoom, ClosedByHost
<1>15. AskedFor'
  BY <1>1, <1>6, <1>11, <1>13 DEF AskedFor
<1> QED
  BY <1>7, <1>8, <1>12, <1>14, <1>15 DEF PageInv

\* A room ends: the page of a live connection is told.
LEMMA EndKeeps ==
  ASSUME PageInv, NEW why, EndRoom(why), server.room # 0, server.ending => why = "host",
         UNCHANGED pageVars, conn' = conn, cmds' \in Seq(CommandsSent),
         client.action = "open" /\ conn = "accepted" => OpenAsked'
  PROVE  PageInv'
<1> DEFINE f == Event("room_left")
<1>1. rooms \in Nat /\ f \in FramesOf(rooms) /\ f.type = "room_left"
  <2>1. rooms \in Nat
    BY PageAssumption DEF PageInv, ProcessType
  <2> QED
    BY <2>1, FramesAre
<1>2. /\ wire' = (IF conn = "live" THEN wire \o <<f>> ELSE wire)
      /\ server' = [up |-> TRUE, room |-> 0, host |-> FALSE, ending |-> FALSE]
      /\ ended' = why /\ rooms' = rooms /\ misled' = misled /\ wire \in Seq(FramesOf(rooms))
  BY DEF EndRoom, Tell, Idle, Down, PageInv, ProcessType
<1> HIDE DEF f
<1>3. wire' = IF conn = "live" THEN Append(wire, f) ELSE wire
  BY <1>1, <1>2, OneIsAppended
<1>4. ProcessType'
  <2>1. wire' \in Seq(FramesOf(rooms'))
    BY <1>1, <1>2, <1>3
  <2>2. server' \in [up : BOOLEAN, room : {0, rooms'}, host : BOOLEAN, ending : BOOLEAN]
        /\ server'.up /\ ~server'.ending
    BY <1>2
  <2>3. StraysHadRooms'
    <3>1. strays \in 0 .. rooms /\ strays # rooms /\ strays' \in {strays, strays + 1}
      BY DEF EndRoom, StraysAfter, PageInv, ProcessType, StraysHadRooms
    <3>2. strays' \in 0 .. rooms
      BY <1>1, <3>1
    <3> QED
      BY <1>2, <3>2 DEF StraysHadRooms
  <2>4. misled' \in BOOLEAN
    BY <1>2 DEF PageInv, ProcessType
  <2> QED
    BY <1>2, <2>1, <2>2, <2>3, <2>4 DEF PageInv, ProcessType
<1>5. PageType' /\ Drawn'
  BY <1>2, PageStays
<1>6. RoomState' = RoomState /\ client' = client
  BY DEF RoomState, pageVars
<1>7. /\ f.type \in EndTypes /\ f.type \notin SetUpTypes /\ f.type # "room_closed" /\ f \in EndFrames
  BY <1>1, FrameIs DEF EndTypes, SetUpTypes
<1>8. conn = "live" => /\ ~ReadyAfter(RoomState, wire')
                       /\ ClosedAfter(RoomState, wire') <=> ClosedAfter(RoomState, wire)
                       /\ EndOnWire'
  <2>1. /\ ~ReadyAfter(RoomState, Append(wire, f))
        /\ ClosedAfter(RoomState, Append(wire, f)) <=> ClosedAfter(RoomState, wire)
    BY <1>1, <1>2, <1>7, OneMoreFrame
  <2>2. Among(Append(wire, f), EndFrames)
    BY <1>1, <1>2, <1>7, AmongMore
  <2> QED
    BY <1>3, <2>1, <2>2 DEF EndOnWire
\* A room that is running shows a page that is not misled ready, hence not closed.
<1>9. conn = "live" /\ ~server.ending /\ ~misled => ~ClosedAfter(RoomState, wire)
  <2>1. conn = "live" /\ ~server.ending /\ ~misled => ReadyAfter(RoomState, wire)
    BY DEF PageInv, PageFollowsRoom
  <2> QED
    BY <1>2, <2>1, OneOutcome
<1>10. PageFollowsRoom' /\ ClosedByHost'
  BY <1>2, <1>6, <1>8, <1>9 DEF PageFollowsRoom, ClosedByHost
<1>11. Connected'
  BY <1>2, <1>3 DEF PageInv, Connected, RoomState, pageVars
<1>12. AskedFor'
  BY <1>6, <1>8 DEF AskedFor
<1> QED
  BY <1>4, <1>5, <1>10, <1>11, <1>12 DEF PageInv

LEMMA IgnoreKeeps ==
  ASSUME PageInv, Ignore, UNCHANGED pageVars, conn' = conn, cmds' \in Seq(CommandsSent),
         conn # "accepted" \/ cmds' = cmds,
         server.room = 0 => (OpenAsked => OpenAsked'),
         server.room # 0 => (CommandAsked => CommandAsked')
  PROVE  PageInv'
<1>1. UNCHANGED <<procVars, wire>>
  BY DEF Ignore
<1>2. PageType' /\ Drawn' /\ ProcessType'
  BY <1>1, PageStays DEF PageInv, ProcessType, procVars, StraysHadRooms
<1>3. RoomState' = RoomState /\ client' = client /\ EndOnWire' = EndOnWire
  BY <1>1 DEF RoomState, EndOnWire, pageVars
<1>4. Connected'
  BY <1>1 DEF PageInv, Connected, RoomState, pageVars, procVars
<1>5. PageFollowsRoom' /\ ClosedByHost'
  BY <1>1, <1>3 DEF PageInv, PageFollowsRoom, ClosedByHost, procVars
<1>6. AskedFor'
  <2>1. cmds' = cmds => OpenAsked' = OpenAsked
    BY DEF OpenAsked
  <2> QED
    BY <1>1, <1>3, <2>1 DEF PageInv, AskedFor, procVars
<1> QED
  BY <1>2, <1>4, <1>5, <1>6 DEF PageInv

LEMMA StopKeeps ==
  ASSUME PageInv, Stop, UNCHANGED pageVars, cmds' = <<>>,
         conn' = IF conn = "off" THEN "off" ELSE "dead"
  PROVE  PageInv'
<1>1. /\ server' = Down /\ rooms' = rooms /\ wire' = wire /\ strays' = 0 /\ misled' = FALSE
  BY DEF Stop
<1>2. ProcessType'
  <2>1. StraysHadRooms'
    <3>1. rooms \in Nat /\ server'.room = 0
      BY <1>1, PageAssumption DEF PageInv, ProcessType, Down
    <3>2. strays' \in 0 .. rooms'
      BY <1>1, <3>1
    <3> QED
      BY <3>1, <3>2 DEF StraysHadRooms
  <2>2. misled' \in BOOLEAN
    BY <1>1
  <2> QED
    BY <1>1, <2>1, <2>2 DEF PageInv, ProcessType, Down
<1> QED
  BY <1>1, <1>2, DeadKeeps, StillOff

LEMMA TakeCommandKeeps ==
  ASSUME PageInv, TakeCommand
  PROVE  PageInv'
<1> DEFINE c == Head(cmds)
<1>1. /\ server.up /\ cmds # <<>> /\ conn # "accepted"
      /\ Execute(c) /\ UNCHANGED pageVars
      /\ cmds' = IF Stopped(c) THEN <<>> ELSE Tail(cmds)
      /\ conn' = IF Stopped(c) /\ conn # "off" THEN "dead" ELSE conn
  BY DEF TakeCommand
<1>2. cmds \in Seq(CommandsSent)
  BY DEF PageInv, ProcessType
<1> HIDE DEF c
<1>3. CASE Stopped(c)
  <2>1. Stop /\ cmds' = <<>> /\ conn' = IF conn = "off" THEN "off" ELSE "dead"
    BY <1>1, <1>3 DEF Execute, Stopped
  <2> QED
    BY <1>1, <2>1, StopKeeps
<1>4. CASE ~Stopped(c)
  <2>1. /\ cmds' \in Seq(CommandsSent) /\ conn' = conn
        /\ OpenAsked <=> OpenAsked' \/ c.cmd = "open"
        /\ CommandAsked <=> CommandAsked' \/ c.cmd # "text"
    BY <1>1, <1>2, <1>4, OneLessAsked DEF c
  <2>2. CASE server.room = 0 /\ c.cmd = "open"
    <3>1. StartRoom(TRUE)
      BY <1>1, <2>2 DEF Execute
    <3> QED
      BY <1>1, <2>1, <3>1, StartKeeps
  <2>3. CASE server.room = 0 /\ c.cmd = "join" /\ c.ticket = "good"
    <3>1. StartRoom(FALSE)
      BY <1>1, <2>3 DEF Execute
    <3>2. OpenAsked' => CommandAsked'
      BY DEF OpenAsked, CommandAsked, Among, Opens, RoomCommands
    <3>3. client.action = "open" /\ conn = "live" /\ ~EndOnWire => CommandAsked'
      <4>1. ~server.ending
        BY <2>3 DEF PageInv, ProcessType
      <4> QED
        BY <1>1, <2>1, <2>3, <3>2, <4>1 DEF PageInv, AskedFor
    <3> QED
      BY <1>1, <2>1, <3>1, <3>3, StartKeeps
  <2>4. CASE server.room = 0 /\ c.cmd # "open" /\ ~(c.cmd = "join" /\ c.ticket = "good")
    <3>1. Ignore
      BY <1>1, <2>4 DEF Execute
    <3> QED
      BY <1>1, <2>1, <2>4, <3>1, IgnoreKeeps
  <2>5. CASE server.room # 0 /\ c.cmd = "text"
    <3>1. Ignore
      BY <1>1, <2>5 DEF Execute
    <3> QED
      BY <1>1, <2>1, <2>5, <3>1, IgnoreKeeps
  <2>6. CASE server.room # 0 /\ c.cmd # "text"
    <3>1. c.cmd # "shutdown"
      BY <1>4, <2>6 DEF Stopped
    <3>2. EndRoom(Reason(c)) /\ (server.ending => Reason(c) = "host")
      BY <1>1, <2>6, <3>1 DEF Execute, Reason
    <3> QED
      BY <1>1, <2>1, <2>6, <3>2, EndKeeps
  <2> QED
    BY <2>2, <2>3, <2>4, <2>5, <2>6
<1> QED
  BY <1>3, <1>4

LEMMA OtherTabKeeps ==
  ASSUME PageInv, OtherTab
  PROVE  PageInv'
<1>1. PICK c \in {Command("open", "none"), Command("join", "good"), Command("leave", "none")} :
        Execute(c)
  BY DEF OtherTab
<1>2. server.up /\ UNCHANGED <<pageVars, conn, cmds>>
  BY DEF OtherTab
<1>3. /\ cmds' \in Seq(CommandsSent)
      /\ OpenAsked' = OpenAsked /\ CommandAsked' = CommandAsked /\ (OpenAsked => CommandAsked)
  BY <1>2 DEF PageInv, ProcessType, OpenAsked, CommandAsked, Among, Opens, RoomCommands
<1>4. \/ c.cmd = "open" \/ (c.cmd = "join" /\ c.ticket = "good") \/ c.cmd = "leave"
  BY <1>1 DEF Command
<1>5. CASE server.room = 0
  <2>1. StartRoom(TRUE) \/ StartRoom(FALSE) \/ Ignore
    BY <1>1, <1>4, <1>5 DEF Execute
  <2>2. client.action = "open" =>
          /\ conn = "accepted" => OpenAsked'
          /\ conn = "live" /\ ~EndOnWire => CommandAsked'
    <3>1. ~server.ending
      BY <1>5 DEF PageInv, ProcessType
    <3> QED
      BY <1>2, <1>3, <1>5, <3>1 DEF PageInv, AskedFor
  <2>3. CASE StartRoom(TRUE)
    BY <1>2, <1>3, <2>2, <2>3, StartKeeps
  <2>4. CASE StartRoom(FALSE)
    BY <1>2, <1>3, <2>2, <2>4, StartKeeps
  <2>5. CASE Ignore
    BY <1>2, <1>3, <2>5, IgnoreKeeps
  <2> QED
    BY <2>1, <2>3, <2>4, <2>5
<1>6. CASE server.room # 0
  <2>1. EndRoom(Reason(c)) /\ (server.ending => Reason(c) = "host")
    BY <1>1, <1>4, <1>6 DEF Execute, Reason
  <2>2. client.action = "open" /\ conn = "accepted" => OpenAsked'
    BY <1>3 DEF PageInv, AskedFor
  <2> QED
    BY <1>2, <1>3, <1>6, <2>1, <2>2, EndKeeps
<1> QED
  BY <1>5, <1>6

LEMMA HostClosesKeeps ==
  ASSUME PageInv, HostCloses
  PROVE  PageInv'
<1> DEFINE f == Event("room_closed")
<1>1. rooms \in Nat /\ f \in FramesOf(rooms)
  BY FramesAre, PageAssumption DEF PageInv, ProcessType
<1>2. /\ wire' = (IF conn = "live" THEN wire \o <<f>> ELSE wire)
      /\ server.room # 0 /\ server' = [server EXCEPT !.ending = TRUE]
      /\ UNCHANGED <<pageVars, conn, cmds, rooms, strays, ended, misled>>
      /\ wire \in Seq(FramesOf(rooms))
  BY DEF HostCloses, Tell, PageInv, ProcessType
<1> HIDE DEF f
<1>3. wire' \in Seq(FramesOf(rooms'))
  BY <1>1, <1>2, OneIsAppended, AppendedPlaces
<1>4. /\ server' \in [up : BOOLEAN, room : {0, rooms}, host : BOOLEAN, ending : BOOLEAN]
      /\ server'.ending /\ server'.room = server.room /\ server'.host = server.host
      /\ server'.up = server.up
  BY <1>2 DEF PageInv, ProcessType
<1>10. server.up
  BY <1>2 DEF PageInv, ProcessType, Down
<1>5. ProcessType'
  BY <1>2, <1>3, <1>4, <1>10 DEF PageInv, ProcessType, StraysHadRooms
<1>6. PageType' /\ Drawn'
  BY <1>2, PageStays
<1>7. Connected'
  BY <1>2, <1>4 DEF PageInv, Connected, RoomState, pageVars
<1>8. PageFollowsRoom' /\ ClosedByHost'
  BY <1>4 DEF PageFollowsRoom, ClosedByHost
<1>9. AskedFor'
  <2>1. OpenAsked' = OpenAsked /\ client' = client
    BY <1>2 DEF OpenAsked, pageVars
  <2> QED
    BY <1>2, <1>4, <2>1 DEF PageInv, AskedFor
<1> QED
  BY <1>5, <1>6, <1>7, <1>8, <1>9 DEF PageInv

\* A close that is not the last room's misleads the page of a live connection, and
\* nothing else learns of it.
LEMMA LateCloseKeeps ==
  ASSUME PageInv, LateClose
  PROVE  PageInv'
<1> DEFINE f == Event("room_closed")
<1>1. rooms \in Nat /\ f \in FramesOf(rooms) /\ f.type = "room_closed"
  <2>1. rooms \in Nat
    BY PageAssumption DEF PageInv, ProcessType
  <2> QED
    BY <2>1, FramesAre
<1>2. /\ wire' = (IF conn = "live" THEN wire \o <<f>> ELSE wire)
      /\ strays > 0 /\ strays' = strays - 1 /\ misled' = (misled \/ conn = "live")
      /\ UNCHANGED <<pageVars, conn, cmds, server, rooms, ended>>
      /\ wire \in Seq(FramesOf(rooms))
  BY DEF LateClose, Tell, PageInv, ProcessType
<1> HIDE DEF f
<1>3. wire' = IF conn = "live" THEN Append(wire, f) ELSE wire
  BY <1>1, <1>2, OneIsAppended
<1>4. ProcessType'
  <2>1. wire' \in Seq(FramesOf(rooms'))
    BY <1>1, <1>2, <1>3, AppendedPlaces
  <2>2. StraysHadRooms'
    <3>1. strays \in 0 .. rooms
      BY DEF PageInv, ProcessType, StraysHadRooms
    <3>2. strays' \in 0 .. rooms' /\ strays' # rooms'
      BY <1>1, <1>2, <3>1
    <3> QED
      BY <3>2 DEF StraysHadRooms
  <2>3. misled' \in BOOLEAN
    BY <1>2 DEF PageInv, ProcessType
  <2> QED
    BY <1>2, <2>1, <2>2, <2>3 DEF PageInv, ProcessType
<1>5. PageType' /\ Drawn'
  BY <1>2, PageStays
<1>6. RoomState' = RoomState /\ client' = client
  BY <1>2 DEF RoomState, pageVars
<1>7. f.type \in EndTypes /\ f \in EndFrames
  BY <1>1, FrameIs DEF EndTypes
<1>8. conn = "live" => ~ReadyAfter(RoomState, wire') /\ EndOnWire'
  <2>1. f.type \notin SetUpTypes
    BY <1>1 DEF SetUpTypes
  <2>2. ~ReadyAfter(RoomState, Append(wire, f))
    BY <1>1, <1>2, <1>7, <2>1, OneMoreFrame
  <2>3. Among(Append(wire, f), EndFrames)
    BY <1>1, <1>2, <1>7, AmongMore
  <2> QED
    BY <1>3, <2>2, <2>3 DEF EndOnWire
<1>9. Connected'
  BY <1>2, <1>3 DEF PageInv, Connected, RoomState, pageVars
<1>10. PageFollowsRoom' /\ ClosedByHost'
  BY <1>2, <1>6, <1>8 DEF PageFollowsRoom, ClosedByHost
<1>11. AskedFor'
  <2>1. OpenAsked' = OpenAsked
    BY <1>2 DEF OpenAsked
  <2> QED
    BY <1>2, <1>6, <1>8, <2>1 DEF PageInv, AskedFor
<1> QED
  BY <1>4, <1>5, <1>9, <1>10, <1>11 DEF PageInv

LEMMA ProcessKeeps ==
  ASSUME PageInv, Process
  PROVE  PageInv'
<1>1. CASE TakeCommand
  BY <1>1, TakeCommandKeeps
<1>2. CASE OtherTab
  BY <1>2, OtherTabKeeps
<1>3. CASE HostCloses
  BY <1>3, HostClosesKeeps
<1>4. CASE RoomEnds
  <2> DEFINE why == IF server.ending THEN "host" ELSE "gossip"
  <2>1. /\ EndRoom(why) /\ (server.ending => why = "host")
        /\ server.room # 0 /\ UNCHANGED <<pageVars, conn, cmds>>
    BY <1>4 DEF RoomEnds
  <2> HIDE DEF why
  <2>2. cmds' \in Seq(CommandsSent) /\ OpenAsked' = OpenAsked
    BY <2>1 DEF PageInv, ProcessType, OpenAsked
  <2>3. client.action = "open" /\ conn = "accepted" => OpenAsked'
    BY <2>2 DEF PageInv, AskedFor
  <2> QED
    BY <2>1, <2>2, <2>3, EndKeeps
<1>5. CASE ProcessStops
  BY <1>5, StopKeeps DEF ProcessStops
<1>6. CASE ProcessStarts
  <2>1. /\ ~server.up /\ server' = Idle /\ UNCHANGED <<pageVars, netVars, rooms, strays, ended, misled>>
    BY <1>6 DEF ProcessStarts
  <2>2. ProcessType'
    <3>1. StraysHadRooms'
      BY <2>1 DEF PageInv, ProcessType, StraysHadRooms, Idle, Down
    <3> QED
      BY <2>1, <3>1 DEF PageInv, ProcessType, Idle, Down, netVars
  <2>3. conn \in {"off", "dead"}
    BY <2>1 DEF PageInv, ProcessType, Connected
  <2>4. CASE conn = "off"
    BY <2>1, <2>2, <2>4, StillOff DEF netVars
  <2>5. CASE conn = "dead"
    BY <2>1, <2>2, <2>5, DeadKeeps DEF netVars
  <2> QED
    BY <2>3, <2>4, <2>5
<1>8. CASE LateClose
  BY <1>8, LateCloseKeeps
<1>7. CASE ConnectionBreaks
  <2>1. /\ conn # "off" /\ conn' = "dead" /\ cmds' \in {cmds, <<>>}
        /\ UNCHANGED <<pageVars, wire, procVars>>
    BY <1>7 DEF ConnectionBreaks
  <2>2. cmds' \in Seq(CommandsSent)
    <3>1. cmds \in Seq(CommandsSent) /\ <<>> \in Seq(CommandsSent)
      BY DEF PageInv, ProcessType
    <3> QED
      BY <2>1, <3>1
  <2>3. ProcessType'
    BY <2>1, <2>2 DEF PageInv, ProcessType, procVars, StraysHadRooms
  <2> QED
    BY <2>1, <2>3, DeadKeeps DEF procVars
<1> QED
  BY <1>1, <1>2, <1>3, <1>4, <1>5, <1>6, <1>7, <1>8 DEF Process

-----------------------------------------------------------------------------

LEMMA InitPage == Init => PageInv
<1> SUFFICES ASSUME Init PROVE PageInv
  OBVIOUS
<1>1. /\ client \in ClientsOf(0) /\ RoomState = "pending" /\ client.status = "connecting"
  BY ConnectingIs DEF Init, Actions, RoomState
<1>2. FreshOverlay \in Overlays /\ ~FreshOverlay.armed /\ ~FreshOverlay.timedOut
  BY DEF FreshOverlay, Overlays, Tickets
<1>3. PageType /\ Drawn
  BY <1>1, <1>2 DEF Init, PageType, Drawn, TimeoutIsPending, Tickets
<1>4. ProcessType
  <2>1. <<>> \in Seq(CommandsSent) /\ <<>> \in Seq(FramesOf(0)) /\ 0 \in 0 .. MaxRooms
    BY PageAssumption
  <2>2. StraysHadRooms
    BY DEF Init, StraysHadRooms, Idle, Down
  <2>3. misled \in BOOLEAN
    BY DEF Init
  <2> QED
    BY <2>1, <2>2, <2>3 DEF Init, ProcessType, Idle, Down
<1>5. Connected /\ PageFollowsRoom /\ ClosedByHost /\ AskedFor
  BY <1>1 DEF Init, Connected, PageFollowsRoom, ClosedByHost, AskedFor
<1> QED
  BY <1>3, <1>4, <1>5 DEF PageInv

LEMMA PageStep == PageInv /\ [Next]_vars => PageInv'
<1> SUFFICES ASSUME PageInv, [Next]_vars PROVE PageInv'
  OBVIOUS
<1>1. CASE User
  BY <1>1, UserKeeps
<1>2. CASE Socket
  BY <1>2, HandshakeKeeps, ReplayKeeps, ReceiveKeeps, SocketClosesKeeps DEF Socket
<1>3. CASE TimerFires
  BY <1>3, TimerKeeps
<1>4. CASE Process
  BY <1>4, ProcessKeeps
<1>5. CASE UNCHANGED vars
  <2>1. overlay' \in Overlays /\ dismissed' \in BOOLEAN /\ Drawn'
    BY <1>5 DEF PageInv, PageType, Drawn, TimeoutIsPending, RoomState, vars, pageVars
  <2> QED
    BY <1>5, <2>1, PageAloneKeeps DEF vars, pageVars, netVars
<1> QED
  BY <1>1, <1>2, <1>3, <1>4, <1>5 DEF Next

THEOREM PageInvariant == Spec => []PageInv
  BY InitPage, PageStep, PTL DEF Spec

\* Every part of the page and the process keeps its type; a page never enters a
\* room it is not in.
THEOREM TypeCorrect == Spec => []TypeOK
<1>1. PageInv => TypeOK
  <2> SUFFICES ASSUME PageInv PROVE TypeOK
    OBVIOUS
  <2>1. strays \in 0 .. rooms /\ misled \in BOOLEAN
    BY DEF PageInv, ProcessType, StraysHadRooms
  <2> QED
    BY <2>1, ClientIs, PageAssumption
    DEF PageInv, PageType, ProcessType, Drawn, TypeOK, RoomState
<1> QED
  BY <1>1, PageInvariant, PTL

\* Whatever users, other tabs, hosts and failures do and in whatever order, what
\* is on its way to a connected page leads it to "ready" exactly if its process
\* is in a room and no receive task of an earlier room has misled the page in it.
THEOREM PageCorrect == Spec => []PageFollowsRoom
<1>1. PageInv => PageFollowsRoom
  BY DEF PageInv
<1> QED
  BY <1>1, PageInvariant, PTL

\* A page that says that the host has closed the room is right of the process's last
\* room, unless the receive task of an earlier one has misled it.
THEOREM CloseCorrect == Spec => []ClosedByHost
<1>1. PageInv => ClosedByHost
  BY DEF PageInv
<1> QED
  BY <1>1, PageInvariant, PTL

\* The button that ends the process is offered, once all is said, only to the
\* host of the room.
THEOREM HostCorrect == Spec => []HostControls
<1>1. PageInv => HostControls
  <2> SUFFICES ASSUME PageInv, Settled, "shutdown" \in Offers PROVE server.host
    BY DEF HostControls
  <2>1. client.action = "open"
    BY OffersAre
  <2>2. ~EndOnWire /\ ~OpenAsked /\ ~CommandAsked
    BY NoneAmong DEF Settled, EndOnWire, OpenAsked, CommandAsked
  <2> QED
    BY <2>1, <2>2 DEF PageInv, AskedFor, Settled
<1> QED
  BY <1>1, PageInvariant, PTL

\* The timer and its message are only ever about a room that is pending on an
\* open connection.
THEOREM TimeoutCorrect == Spec => []TimeoutIsPending
<1>1. PageInv => TimeoutIsPending
  BY DEF PageInv, Drawn
<1> QED
  BY <1>1, PageInvariant, PTL

-----------------------------------------------------------------------------
(* Reading the wire frame by frame.  Induction over the frames goes by sets  *)
(* of numbers, since the provers cannot instantiate a predicate.             *)

LEMMA SetInduction ==
  ASSUME NEW S, 0 \in S, \A n \in Nat : n \in S => n + 1 \in S
  PROVE  Nat \subseteq S
<1> SUFFICES ASSUME NEW k \in Nat \ S PROVE FALSE
  OBVIOUS
<1> DEFINE T == Nat \ S
<1>1. PICK x \in T : \A y \in T : ~(<<y, x>> \in OpToRel(<, Nat))
  BY WFMin, NatLessThanWellFounded
<1>2. x # 0 /\ x \in Nat /\ x - 1 \notin T
  <2>1. x # 0
    OBVIOUS
  <2>2. x - 1 \in Nat /\ x - 1 < x
    BY <2>1
  <2>3. <<x - 1, x>> \in Nat \X Nat /\ <<x - 1, x>>[1] < <<x - 1, x>>[2]
    BY <2>2
  <2>4. <<x - 1, x>> \in OpToRel(<, Nat)
    BY <2>3 DEF OpToRel
  <2> QED
    BY <1>1, <2>1, <2>4, Zenon
<1>3. x - 1 \in Nat /\ (x - 1) + 1 = x
  BY <1>2
<1>4. x - 1 \in S
  BY <1>2, <1>3
<1> QED
  BY <1>3, <1>4

\* What reading comes to, as FoldLeft defines it: at each set of places, the frame at
\* the last of them is read after the others.
IsReading(g, n, v, w) ==
  g = [s \in SUBSET (1 .. n) |->
         IF s = {} THEN v ELSE OnMessage(g[s \ {Max(s)}], w[Max(s)])]

LEMMA GreatestIs ==
  ASSUME NEW s, s \subseteq Nat, NEW n \in s, \A i \in s : i <= n
  PROVE  Max(s) = n
<1>1. PICK m : m = Max(s)
  OBVIOUS
<1>2. \A y \in s : n >= y
  OBVIOUS
<1>3. m \in s /\ \A y \in s : m >= y
  BY <1>1, <1>2 DEF Max
<1>4. m \in Nat /\ n \in Nat /\ m >= n /\ n >= m
  BY <1>2, <1>3
<1>5. m = n
  BY <1>4
<1> QED
  BY <1>1, <1>5

LEMMA LastPlace ==
  ASSUME NEW n \in Nat, NEW s \in SUBSET (1 .. n), n \in s
  PROVE  Max(s) = n
<1>1. s \subseteq Nat /\ \A i \in s : i <= n
  OBVIOUS
<1> QED
  BY <1>1, GreatestIs

LEMMA ReadingStep ==
  ASSUME NEW v, NEW w, NEW n \in Nat, NEW g, IsReading(g, n, v, w)
  PROVE  /\ g[{}] = v
         /\ \A i \in 1 .. n : g[1 .. i] = OnMessage(g[1 .. i - 1], w[i])
<1>1. g[{}] = v
  BY DEF IsReading
<1>2. ASSUME NEW i \in 1 .. n PROVE g[1 .. i] = OnMessage(g[1 .. i - 1], w[i])
  <2>1. /\ i \in Nat /\ 1 .. i \in SUBSET (1 .. i) /\ i \in 1 .. i
        /\ 1 .. i \in SUBSET (1 .. n) /\ 1 .. i # {} /\ (1 .. i) \ {i} = 1 .. i - 1
    OBVIOUS
  <2>2. Max(1 .. i) = i
    BY <2>1, LastPlace
  <2>3. PICK s : s = 1 .. i
    OBVIOUS
  <2>4. s \in SUBSET (1 .. n) /\ s # {} /\ Max(s) = i /\ s \ {i} = 1 .. i - 1
    BY <2>1, <2>2, <2>3
  <2>5. g[s] = OnMessage(g[s \ {Max(s)}], w[Max(s)])
    <3>1. \A t \in SUBSET (1 .. n) :
            g[t] = IF t = {} THEN v ELSE OnMessage(g[t \ {Max(t)}], w[Max(t)])
      BY DEF IsReading
    <3>2. g[s] = IF s = {} THEN v ELSE OnMessage(g[s \ {Max(s)}], w[Max(s)])
      BY ONLY <2>4, <3>1, Zenon
    <3> QED
      BY ONLY <2>4, <3>2, Zenon
  <2> QED
    BY ONLY <2>3, <2>4, <2>5, Zenon
<1> QED
  BY <1>1, <1>2

LEMMA ReadingExists ==
  ASSUME NEW v, NEW w, NEW n \in Nat
  PROVE  \E g : IsReading(g, n, v, w)
<1> DEFINE S == {k \in Nat : \E g : IsReading(g, k, v, w)}
<1>1. 0 \in S
  <2> DEFINE g == [s \in SUBSET (1 .. 0) |-> v]
  <2>1. \A s \in SUBSET (1 .. 0) : s = {}
    OBVIOUS
  <2>2. IsReading(g, 0, v, w)
    BY <2>1 DEF IsReading
  <2> QED
    BY <2>2
<1>2. ASSUME NEW k \in Nat, k \in S PROVE k + 1 \in S
  <2>1. PICK g : IsReading(g, k, v, w)
    BY <1>2
  <2>2. PICK m : m = k + 1
    OBVIOUS
  <2>3. m \in Nat /\ m \notin 1 .. k /\ 1 .. m = (1 .. k) \cup {m}
    BY <2>2
  <2> DEFINE h == [s \in SUBSET (1 .. m) |->
                     IF m \in s THEN OnMessage(g[s \ {m}], w[m]) ELSE g[s]]
  <2>4. ASSUME NEW s \in SUBSET (1 .. m)
        PROVE  h[s] = IF s = {} THEN v ELSE OnMessage(h[s \ {Max(s)}], w[Max(s)])
    <3>1. CASE m \in s
      <4>1. Max(s) = m
        BY <2>3, <3>1, LastPlace
      <4>2. s \ {m} \in SUBSET (1 .. m) /\ m \notin s \ {m} /\ s # {}
        BY <3>1
      <4>3. h[s \ {m}] = g[s \ {m}] /\ h[s] = OnMessage(g[s \ {m}], w[m])
        BY <3>1, <4>2
      <4> QED
        BY <4>1, <4>2, <4>3
    <3>2. CASE m \notin s
      <4>1. s \in SUBSET (1 .. k) /\ s \ {Max(s)} \in SUBSET (1 .. m) /\ m \notin s \ {Max(s)}
        BY <2>3, <3>2
      <4>2. h[s] = g[s] /\ h[s \ {Max(s)}] = g[s \ {Max(s)}]
        BY <3>2, <4>1
      <4>3. g[s] = IF s = {} THEN v ELSE OnMessage(g[s \ {Max(s)}], w[Max(s)])
        BY <2>1, <4>1 DEF IsReading
      <4> QED
        BY <4>2, <4>3
    <3> QED
      BY <3>1, <3>2
  <2>5. h = [s \in SUBSET (1 .. m) |-> h[s]]
    OBVIOUS
  <2> HIDE DEF h
  <2>6. h = [s \in SUBSET (1 .. m) |->
               IF s = {} THEN v ELSE OnMessage(h[s \ {Max(s)}], w[Max(s)])]
    BY <2>4, <2>5
  <2>7. IsReading(h, m, v, w)
    BY <2>6 DEF IsReading
  <2> QED
    BY <2>2, <2>3, <2>7
<1> HIDE DEF S
<1>3. n \in S
  BY <1>1, <1>2, SetInduction
<1> QED
  BY <1>3 DEF S

Reading(v, w) == CHOOSE g : IsReading(g, Len(w), v, w)

\* The view after all frames, as Outlook has it.
After(v, w) == FoldLeft(OnMessage, v, w)

LEMMA FoldReads ==
  ASSUME NEW E, NEW w \in Seq(E), NEW v
  PROVE  /\ After(v, w) = Reading(v, w)[1 .. Len(w)]
         /\ IsReading(Reading(v, w), Len(w), v, w)
<1>1. DOMAIN w = 1 .. Len(w) /\ Len(w) \in Nat
  OBVIOUS
<1>2. After(v, w) =
        (CHOOSE g : g = [s \in SUBSET (DOMAIN w) |->
                           IF s = {} THEN v ELSE OnMessage(g[s \ {Max(s)}], w[Max(s)])])
          [DOMAIN w]
  BY DEF After, FoldLeft, MapThenFoldSet
<1>3. After(v, w) = Reading(v, w)[1 .. Len(w)]
  BY <1>1, <1>2 DEF Reading, IsReading
<1>4. IsReading(Reading(v, w), Len(w), v, w)
  BY <1>1, ReadingExists DEF Reading
<1> QED
  BY <1>3, <1>4

\* The first n frames.
Upto(w, n) == [i \in 1 .. n |-> w[i]]

LEMMA UptoIs ==
  ASSUME NEW E, NEW w \in Seq(E)
  PROVE  /\ Upto(w, 0) = <<>> /\ Upto(w, Len(w)) = w
         /\ \A i \in 1 .. Len(w) :
              /\ Upto(w, i - 1) \in Seq(E) /\ w[i] \in E
              /\ Upto(w, i) = Append(Upto(w, i - 1), w[i])
<1>1. Upto(w, 0) = <<>> /\ Upto(w, Len(w)) = w
  BY DEF Upto
<1>2. ASSUME NEW i \in 1 .. Len(w)
      PROVE  /\ Upto(w, i - 1) \in Seq(E) /\ w[i] \in E
             /\ Upto(w, i) = Append(Upto(w, i - 1), w[i])
  BY DEF Upto
<1> QED
  BY <1>1, <1>2

\* A view after frames w has the room state their last deciding ones say.
Decided(state, s, w) ==
  (state = "ready" <=> ReadyAfter(s, w)) /\ (state = "closed" <=> ClosedAfter(s, w))

LEMMA StillDecided ==
  ASSUME NEW E, NEW w \in Seq(E), NEW f \in E, NEW s, NEW state, Decided(state, s, w)
  PROVE  Decided(RoomStateAfter(state, f), s, Append(w, f))
<1>1. /\ RoomStateAfter(state, f) = "ready" <=>
           f.type \in SetUpTypes \/ (f.type \notin EndTypes /\ state = "ready")
      /\ RoomStateAfter(state, f) = "closed" <=>
           f.type = "room_closed" \/ (f.type \notin SetUpTypes /\ state = "closed")
  BY DEF RoomStateAfter, SetUpTypes, EndTypes
<1>2. /\ ReadyAfter(s, Append(w, f)) <=>
           f.type \in SetUpTypes \/ (f.type \notin EndTypes /\ ReadyAfter(s, w))
      /\ ClosedAfter(s, Append(w, f)) <=>
           f.type = "room_closed" \/ (f.type \notin SetUpTypes /\ ClosedAfter(s, w))
  BY OneMoreFrame
<1> QED
  BY <1>1, <1>2 DEF Decided

LEMMA ReadingDecides ==
  ASSUME NEW n \in Nat, NEW w \in Seq(FramesOf(n)), NEW v \in Views
  PROVE  Decided(After(v, w).roomState, v.roomState, w)
<1>1. PICK g, s : g = Reading(v, w) /\ s = v.roomState
  OBVIOUS
<1> DEFINE Reads(i) == g[1 .. i] \in Views /\ Decided(g[1 .. i].roomState, s, Upto(w, i))
           S == {i \in Nat : i <= Len(w) => Reads(i)}
<1>2. Len(w) \in Nat
  OBVIOUS
<1>3. /\ After(v, w) = g[1 .. Len(w)] /\ g[{}] = v
      /\ \A i \in 1 .. Len(w) : g[1 .. i] = OnMessage(g[1 .. i - 1], w[i])
  <2>1. After(v, w) = g[1 .. Len(w)] /\ IsReading(g, Len(w), v, w)
    BY <1>1, FoldReads
  <2> QED
    BY <1>2, <2>1, ReadingStep
<1>4. 0 \in S
  <2>1. 1 .. 0 = {}
    OBVIOUS
  <2>2. Decided(s, s, <<>>)
    BY NothingToRead DEF Decided
  <2> QED
    BY <1>1, <1>3, <2>1, <2>2, UptoIs
<1>5. ASSUME NEW k \in Nat, k \in S, k + 1 <= Len(w) PROVE Reads(k + 1)
  <2>1. PICK i : i = k + 1
    OBVIOUS
  <2>2. i \in 1 .. Len(w) /\ i - 1 = k /\ k <= Len(w)
    BY <1>2, <1>5, <2>1
  <2>3. g[1 .. i] = OnMessage(g[1 .. k], w[i])
    BY <1>3, <2>2
  <2>4. /\ Upto(w, k) \in Seq(FramesOf(n)) /\ w[i] \in FramesOf(n)
        /\ Upto(w, i) = Append(Upto(w, k), w[i])
    BY <2>2, UptoIs
  <2>5. Reads(k)
    BY <1>5, <2>2
  <2>6. /\ g[1 .. i] \in Views
        /\ g[1 .. i].roomState = RoomStateAfter(g[1 .. k].roomState, w[i])
    BY <2>3, <2>4, <2>5, OnMessageIs
  <2>7. Decided(RoomStateAfter(g[1 .. k].roomState, w[i]), s, Append(Upto(w, k), w[i]))
    BY <2>4, <2>5, StillDecided
  <2> QED
    BY <2>1, <2>4, <2>6, <2>7
<1>6. \A k \in Nat : k \in S => k + 1 \in S
  BY <1>5
<1> HIDE DEF Reads
<1>7. Len(w) \in S
  <2> HIDE DEF S
  <2> QED
    BY <1>2, <1>4, <1>6, SetInduction
<1>8. Reads(Len(w))
  BY <1>2, <1>7
<1> QED
  BY <1>1, <1>3, <1>8, UptoIs DEF Reads

\* What the properties say of the last deciding frames on the wire is what the page
\* comes to when its handler reads them one by one, however many there are.
THEOREM OutlookCorrect == Spec => []OutlookIsLastFrame
<1>1. PageInv => OutlookIsLastFrame
  <2> SUFFICES ASSUME PageInv PROVE OutlookIsLastFrame
    OBVIOUS
  <2>1. rooms \in Nat /\ wire \in Seq(FramesOf(rooms)) /\ client.view \in Views
    BY PageAssumption DEF PageInv, PageType, ProcessType, ClientsOf
  <2>2. Decided(After(client.view, wire).roomState, client.view.roomState, wire)
    BY <2>1, ReadingDecides
  <2> QED
    BY <2>2 DEF Decided, After, Outlook, RoomState, OutlookIsLastFrame
<1> QED
  BY <1>1, PageInvariant, PTL
=============================================================================
