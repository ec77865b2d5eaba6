-------------------------- MODULE LifecycleProofs ---------------------------
(***************************************************************************)
(* Proofs about Lifecycle, for any number of connections: the order of      *)
(* main's statements alone keeps every thread off what is not there.        *)
(***************************************************************************)
EXTENDS Lifecycle, TLAPS

-----------------------------------------------------------------------------
(* The statements by their places.                                          *)

LEMMA ProgramIs ==
    /\ Len(Program) = 31
    /\ Program[1] = <<"make", "libfix_client">>
    /\ Program[2] = <<"make", "promises">>
    /\ Program[3] = <<"make", "sessions">>
    /\ Program[4] = <<"start", "fix">>
    /\ Program[5] = <<"registe", FixBuilder>>
    /\ Program[6] = <<"registe", FixFactory>>
    /\ Program[7] = <<"make", "libhttp_to_fix">>
    /\ Program[8] = <<"registe", ToFixBuilder>>
    /\ Program[9] = <<"make", "libhttp_server">>
    /\ Program[10] = <<"make", "schedule">>
    /\ Program[11] = <<"registe", HttpFactory>>
    /\ Program[12] = <<"make", "server">>
    /\ Program[13] = <<"start", "io">>
    /\ Program[14] = <<"signal", "SIGINT">>
    /\ Program[15] = <<"run", "ios">>
    /\ Program[16] = <<"stop", "io">>
    /\ Program[17] = <<"join", "io">>
    /\ Program[18] = <<"unregiste", HttpFactory>>
    /\ Program[19] = <<"destroy", "server">>
    /\ Program[20] = <<"drop", "schedule">>
    /\ Program[21] = <<"unwind", "coroutines">>
    /\ Program[22] = <<"destroy", "libhttp_server">>
    /\ Program[23] = <<"unregiste", ToFixBuilder>>
    /\ Program[24] = <<"destroy", "libhttp_to_fix">>
    /\ Program[25] = <<"unregiste", FixBuilder>>
    /\ Program[26] = <<"unregiste", FixFactory>>
    /\ Program[27] = <<"stop", "fix">>
    /\ Program[28] = <<"join", "fix">>
    /\ Program[29] = <<"destroy", "sessions">>
    /\ Program[30] = <<"destroy", "promises">>
    /\ Program[31] = <<"destroy", "libfix_client">>
BY DEF Program, FixClientInit, HttpToFixInit, HttpServerInit,
       HttpServerDeinit, HttpToFixDeinit, FixClientDeinit

\* Where main is when a statement is carried out.
LEMMA Where ==
    ASSUME main \in 1..Over, NEW verb, NEW object, At(verb, object)
    PROVE  /\ main \in 1..31 /\ Over = 32
           /\ verb = "make" =>
                 \/ main = 1 /\ object = "libfix_client"
                 \/ main = 2 /\ object = "promises"
                 \/ main = 3 /\ object = "sessions"
                 \/ main = 7 /\ object = "libhttp_to_fix"
                 \/ main = 9 /\ object = "libhttp_server"
                 \/ main = 10 /\ object = "schedule"
                 \/ main = 12 /\ object = "server"
           /\ verb = "start" =>
                 \/ main = 4 /\ object = "fix"
                 \/ main = 13 /\ object = "io"
           /\ verb = "registe" =>
                 \/ main = 5 /\ object = FixBuilder
                 \/ main = 6 /\ object = FixFactory
                 \/ main = 8 /\ object = ToFixBuilder
                 \/ main = 11 /\ object = HttpFactory
           /\ verb = "signal" =>
                 \/ main = 14 /\ object = "SIGINT"
           /\ verb = "run" =>
                 \/ main = 15 /\ object = "ios"
           /\ verb = "stop" =>
                 \/ main = 16 /\ object = "io"
                 \/ main = 27 /\ object = "fix"
           /\ verb = "join" =>
                 \/ main = 17 /\ object = "io"
                 \/ main = 28 /\ object = "fix"
           /\ verb = "unregiste" =>
                 \/ main = 18 /\ object = HttpFactory
                 \/ main = 23 /\ object = ToFixBuilder
                 \/ main = 25 /\ object = FixBuilder
                 \/ main = 26 /\ object = FixFactory
           /\ verb = "destroy" =>
                 \/ main = 19 /\ object = "server"
                 \/ main = 22 /\ object = "libhttp_server"
                 \/ main = 24 /\ object = "libhttp_to_fix"
                 \/ main = 29 /\ object = "sessions"
                 \/ main = 30 /\ object = "promises"
                 \/ main = 31 /\ object = "libfix_client"
           /\ verb = "drop" =>
                 \/ main = 20 /\ object = "schedule"
           /\ verb = "unwind" =>
                 \/ main = 21 /\ object = "coroutines"
<1>1. Over = 32 /\ main \in 1..31
  BY ProgramIs DEF At, Over
<1>2. Program[main] = <<verb, object>>
  BY DEF At
<1> QED
  BY <1>1, <1>2, ProgramIs

LEMMA EntriesDiffer ==
    /\ FixBuilder # ToFixBuilder /\ FixBuilder # FixFactory /\ FixBuilder # HttpFactory
    /\ ToFixBuilder # FixFactory /\ ToFixBuilder # HttpFactory /\ FixFactory # HttpFactory
BY DEF FixBuilder, ToFixBuilder, FixFactory, HttpFactory

-----------------------------------------------------------------------------
(* What each place of main says of everything else.                         *)

From(a, b) == a <= main /\ main <= b

\* What is constructed and registered is so between two statements.
MainInv ==
    /\ "libfix_client" \in live <=> From(2, 31)
    /\ "promises" \in live <=> From(3, 30)
    /\ "sessions" \in live <=> From(4, 29)
    /\ "libhttp_to_fix" \in live <=> From(8, 24)
    /\ "libhttp_server" \in live <=> From(10, 22)
    /\ "schedule" \in live <=> From(11, 20)
    /\ "server" \in live <=> From(13, 19)
    /\ FixBuilder \in registered <=> From(6, 25)
    /\ FixFactory \in registered <=> From(7, 26)
    /\ ToFixBuilder \in registered <=> From(9, 23)
    /\ HttpFactory \in registered <=> From(12, 18)
    /\ changing # None => main \in {5, 6, 8, 11, 18, 23, 25, 26}

\* The other threads run between two statements.
ThreadInv ==
    /\ "io" \in stopped <=> From(17, 32)
    /\ "fix" \in stopped <=> From(28, 32)
    /\ io = "none" <=> From(1, 13)
    /\ io = "ended" => From(17, 32)
    /\ From(18, 32) => io = "ended"
    /\ fix = "none" <=> From(1, 4)
    /\ fix = "ended" <=> From(29, 32)
    /\ fix \in {"called", "locked", "holding", "stuck"} => for \in Coroutine

Running == {"parse", "route", "convert", "ask", "register", "leave", "reply"}

\* A coroutine is on its way only while the io thread runs it, and a promise is
\* its own.
PlaceInv ==
    /\ \A c \in Coroutine : place[c] \in Running <=> io = c
    /\ \A c \in Coroutine : place[c] # "lost"
    /\ \A c \in Coroutine : place[c] # "unborn" => From(14, 32)
    /\ \A c \in promises : InCreate(c)

\* After the unwinding nothing is suspended, or QuickFIX's thread has the scheduler.
UnwoundInv == From(22, 32) => Straddled \/ \A c \in Coroutine : ~Suspended(c)

IInv == TypeOK /\ MainInv /\ ThreadInv /\ PlaceInv /\ UnwoundInv

LEMMA OverIs ==
    Over = 32
BY ProgramIs DEF Over

LEMMA InitSound ==
    Init => IInv
<1> SUFFICES ASSUME Init PROVE IInv
  OBVIOUS
<1>1. TypeOK
  <2>1. place \in [Coroutine -> {"unborn"}] /\ main \in 1..Over
    BY OverIs DEF Init
  <2>2. live = {} /\ registered = {} /\ stopped = {} /\ posted = {} /\ promises = {}
    BY DEF Init
  <2> QED
    BY <2>1, <2>2 DEF Init, TypeOK
<1>2. MainInv
  BY DEF Init, MainInv, From
<1>3. ThreadInv
  BY DEF Init, ThreadInv, From
<1>4. PlaceInv
  <2>1. \A c \in Coroutine : place[c] = "unborn" /\ io # c
    BY CoroutinesAreNoStates DEF Init
  <2>2. promises = {}
    BY DEF Init
  <2> QED
    BY <2>1, <2>2 DEF PlaceInv, Running
<1>5. UnwoundInv
  BY DEF Init, UnwoundInv, From
<1> QED
  BY <1>1, <1>2, <1>3, <1>4, <1>5 DEF IInv

\* A statement of main that leaves the coroutines alone.
LEMMA MainMoves ==
    ASSUME IInv, main' \in {main, main + 1}, main < 32, UNCHANGED <<place, promises, io>>,
           main' = main + 1 => main # 21,
           main >= 22 /\ Straddled => Straddled'
    PROVE  PlaceInv' /\ UnwoundInv'
<1>1. main \in 1..32
  BY OverIs DEF IInv, TypeOK
<1>2. PlaceInv'
  BY <1>1 DEF IInv, PlaceInv, From, InCreate
<1>3. UnwoundInv'
  <2>1. CASE main >= 22
    BY <1>1, <2>1 DEF IInv, UnwoundInv, From, Suspended
  <2>2. CASE main < 22
    BY <1>1, <2>2 DEF UnwoundInv, From
  <2> QED
    BY <1>1, <2>1, <2>2
<1> QED
  BY <1>2, <1>3

LEMMA MakeStep ==
    ASSUME IInv, NEW o \in Object, Make(o)
    PROVE  IInv'
<1>1. main \in 1..31 /\ Over = 32
  BY Where DEF Make, IInv, TypeOK
<1>2. \/ main = 1 /\ o = "libfix_client"
      \/ main = 2 /\ o = "promises"
      \/ main = 3 /\ o = "sessions"
      \/ main = 7 /\ o = "libhttp_to_fix"
      \/ main = 9 /\ o = "libhttp_server"
      \/ main = 10 /\ o = "schedule"
      \/ main = 12 /\ o = "server"
  BY Where DEF Make, IInv, TypeOK
<1>3. TypeOK'
  BY <1>1, <1>2 DEF Make, Done, IInv, TypeOK, ioVars, fixVars
<1>4. MainInv'
  BY <1>1, <1>2, EntriesDiffer DEF Make, Done, IInv, MainInv, From
<1>5. ThreadInv'
  BY <1>1, <1>2 DEF Make, Done, IInv, ThreadInv, From, ioVars, fixVars
<1>6. main >= 22 /\ Straddled => Straddled'
  BY <1>1, <1>2 DEF Make, IInv, Straddled, MainInv, From, fixVars
<1>7. PlaceInv' /\ UnwoundInv'
  BY <1>1, <1>2, <1>6, MainMoves DEF Make, Done, ioVars
<1> QED
  BY <1>3, <1>4, <1>5, <1>7 DEF IInv

LEMMA MakeFailsStep ==
    ASSUME IInv, NEW o \in Object, MakeFails(o)
    PROVE  IInv'
<1>1. main \in 1..31 /\ Over = 32
  BY Where DEF MakeFails, IInv, TypeOK
<1>2. \/ main = 1 /\ o = "libfix_client"
      \/ main = 2 /\ o = "promises"
      \/ main \in {3, 4} /\ o = "sessions"
      \/ main = 7 /\ o = "libhttp_to_fix"
      \/ main = 9 /\ o = "libhttp_server"
      \/ main = 10 /\ o = "schedule"
      \/ main = 12 /\ o = "server"
  BY Where DEF MakeFails, IInv, TypeOK
<1>3. TypeOK'
  BY <1>1, <1>2 DEF MakeFails, IInv, TypeOK, ioVars, fixVars, mainVars
<1>4. MainInv'
  BY <1>1, <1>2, EntriesDiffer DEF MakeFails, IInv, MainInv, From, mainVars
<1>5. ThreadInv'
  BY <1>1, <1>2 DEF MakeFails, IInv, ThreadInv, From, ioVars, fixVars, mainVars
<1>6. main >= 22 /\ Straddled => Straddled'
  BY <1>1, <1>2 DEF MakeFails, IInv, Straddled, MainInv, From, fixVars, mainVars
<1>7. PlaceInv' /\ UnwoundInv'
  BY <1>1, <1>2, <1>6, MainMoves DEF MakeFails, ioVars, mainVars
<1> QED
  BY <1>3, <1>4, <1>5, <1>7 DEF IInv

LEMMA DestroyStep ==
    ASSUME IInv, NEW o \in Object, Destroy(o)
    PROVE  IInv'
<1>1. main \in 1..31 /\ Over = 32
  BY Where DEF Destroy, IInv, TypeOK
<1>2. \/ main = 19 /\ o = "server"
      \/ main = 22 /\ o = "libhttp_server"
      \/ main = 24 /\ o = "libhttp_to_fix"
      \/ main = 29 /\ o = "sessions"
      \/ main = 30 /\ o = "promises"
      \/ main = 31 /\ o = "libfix_client"
  BY Where DEF Destroy, IInv, TypeOK
<1>3. TypeOK'
  BY <1>1, <1>2 DEF Destroy, Done, IInv, TypeOK, ioVars, fixVars
<1>4. MainInv'
  BY <1>1, <1>2, EntriesDiffer DEF Destroy, Done, IInv, MainInv, From
<1>5. ThreadInv'
  BY <1>1, <1>2 DEF Destroy, Done, IInv, ThreadInv, From, ioVars, fixVars
<1>6. main >= 22 /\ Straddled => Straddled'
  BY <1>1, <1>2 DEF Destroy, IInv, Straddled, MainInv, From, fixVars
<1>7. PlaceInv' /\ UnwoundInv'
  BY <1>1, <1>2, <1>6, MainMoves DEF Destroy, Done, ioVars
<1> QED
  BY <1>3, <1>4, <1>5, <1>7 DEF IInv

LEMMA CopyStep ==
    ASSUME IInv, NEW e \in Entry, Copy(e)
    PROVE  IInv'
<1>1. main \in 1..31 /\ Over = 32
  BY Where DEF Copy, IInv, TypeOK
<1>2. \/ main = 5 /\ e = FixBuilder
      \/ main = 6 /\ e = FixFactory
      \/ main = 8 /\ e = ToFixBuilder
      \/ main = 11 /\ e = HttpFactory
      \/ main = 18 /\ e = HttpFactory
      \/ main = 23 /\ e = ToFixBuilder
      \/ main = 25 /\ e = FixBuilder
      \/ main = 26 /\ e = FixFactory
  BY Where DEF Copy, IInv, TypeOK
<1>3. TypeOK'
  <2>1. changing' \in {"builders", "factories"}
    <3>1. changing' = e[1]
      BY DEF Copy
    <3>2. \/ e = <<"builders", "fix">> \/ e = <<"builders", "GET /">>
          \/ e = <<"factories", "fix">> \/ e = <<"factories", "http">>
      BY DEF Entry, FixBuilder, FixFactory, ToFixBuilder, HttpFactory
    <3>3. /\ <<"builders", "fix">>[1] = "builders" /\ <<"builders", "GET /">>[1] = "builders"
          /\ <<"factories", "fix">>[1] = "factories"
          /\ <<"factories", "http">>[1] = "factories"
      OBVIOUS
    <3>4. e[1] = "builders" \/ e[1] = "factories"
      BY <3>2, <3>3, Zenon
    <3> QED
      BY <3>1, <3>4
  <2> QED
    BY <1>1, <1>2, <2>1 DEF Copy, IInv, TypeOK, ioVars, fixVars
<1>4. MainInv'
  BY <1>1, <1>2, EntriesDiffer DEF Copy, IInv, MainInv, From
<1>5. ThreadInv'
  BY <1>1, <1>2 DEF Copy, IInv, ThreadInv, From, ioVars, fixVars
<1>6. main >= 22 /\ Straddled => Straddled'
  BY <1>1, <1>2 DEF Copy, IInv, Straddled, MainInv, From, fixVars
<1>7. PlaceInv' /\ UnwoundInv'
  BY <1>1, <1>2, <1>6, MainMoves DEF Copy, ioVars
<1> QED
  BY <1>3, <1>4, <1>5, <1>7 DEF IInv

LEMMA PublishStep ==
    ASSUME IInv, NEW e \in Entry, Publish(e)
    PROVE  IInv'
<1>1. main \in 1..31 /\ Over = 32
  BY Where DEF Publish, IInv, TypeOK
<1>2. \/ main = 5 /\ e = FixBuilder /\ registered' = registered \cup {e}
      \/ main = 6 /\ e = FixFactory /\ registered' = registered \cup {e}
      \/ main = 8 /\ e = ToFixBuilder /\ registered' = registered \cup {e}
      \/ main = 11 /\ e = HttpFactory /\ registered' = registered \cup {e}
      \/ main = 18 /\ e = HttpFactory /\ registered' = registered \ {e}
      \/ main = 23 /\ e = ToFixBuilder /\ registered' = registered \ {e}
      \/ main = 25 /\ e = FixBuilder /\ registered' = registered \ {e}
      \/ main = 26 /\ e = FixFactory /\ registered' = registered \ {e}
  BY Where DEF Publish, IInv, TypeOK
<1>3. TypeOK'
  BY <1>1, <1>2 DEF Publish, Done, IInv, TypeOK, ioVars, fixVars
<1>4. MainInv'
  BY <1>1, <1>2, EntriesDiffer DEF Publish, Done, IInv, MainInv, From
<1>5. ThreadInv'
  BY <1>1, <1>2 DEF Publish, Done, IInv, ThreadInv, From, ioVars, fixVars
<1>6. main >= 22 /\ Straddled => Straddled'
  BY <1>1, <1>2 DEF Publish, IInv, Straddled, MainInv, From, fixVars
<1>7. PlaceInv' /\ UnwoundInv'
  BY <1>1, <1>2, <1>6, MainMoves DEF Publish, Done, ioVars
<1> QED
  BY <1>3, <1>4, <1>5, <1>7 DEF IInv

LEMMA StartFixStep ==
    ASSUME IInv, StartFix
    PROVE  IInv'
<1>1. main \in 1..31 /\ Over = 32
  BY Where DEF StartFix, IInv, TypeOK
<1>2. main = 4
  BY Where DEF StartFix, IInv, TypeOK
<1>3. TypeOK'
  BY <1>1, <1>2 DEF StartFix, Done, IInv, TypeOK, ioVars, fixVars
<1>4. MainInv'
  BY <1>1, <1>2, EntriesDiffer DEF StartFix, Done, IInv, MainInv, From
<1>5. ThreadInv'
  BY <1>1, <1>2 DEF StartFix, Done, IInv, ThreadInv, From, ioVars, fixVars
<1>6. main >= 22 /\ Straddled => Straddled'
  BY <1>1, <1>2 DEF StartFix, IInv, Straddled, MainInv, From, fixVars
<1>7. PlaceInv' /\ UnwoundInv'
  BY <1>1, <1>2, <1>6, MainMoves DEF StartFix, Done, ioVars
<1> QED
  BY <1>3, <1>4, <1>5, <1>7 DEF IInv

LEMMA StartIoStep ==
    ASSUME IInv, StartIo
    PROVE  IInv'
<1>1. main \in 1..31 /\ Over = 32
  BY Where DEF StartIo, IInv, TypeOK
<1>2. main = 13
  BY Where DEF StartIo, IInv, TypeOK
<1>3. TypeOK'
  BY <1>1, <1>2 DEF StartIo, Done, IInv, TypeOK, ioVars, fixVars
<1>4. MainInv'
  BY <1>1, <1>2, EntriesDiffer DEF StartIo, Done, IInv, MainInv, From
<1>5. ThreadInv'
  BY <1>1, <1>2 DEF StartIo, Done, IInv, ThreadInv, From, ioVars, fixVars
<1>6. io = "none" /\ \A c \in Coroutine : io # c /\ io' # c
  BY <1>1, <1>2, CoroutinesAreNoStates DEF StartIo, IInv, ThreadInv, From
<1>7. PlaceInv' /\ UnwoundInv'
  BY <1>1, <1>2, <1>6 DEF StartIo, Done, IInv, PlaceInv, UnwoundInv, From, InCreate
<1> QED
  BY <1>3, <1>4, <1>5, <1>7 DEF IInv

LEMMA SignalStep ==
    ASSUME IInv, Signal
    PROVE  IInv'
<1>1. main \in 1..31 /\ Over = 32
  BY Where DEF Signal, IInv, TypeOK
<1>2. main \in {14, 15}
  BY Where DEF Signal, IInv, TypeOK
<1>3. TypeOK'
  BY <1>1, <1>2 DEF Signal, Done, IInv, TypeOK, ioVars, fixVars
<1>4. MainInv'
  BY <1>1, <1>2, EntriesDiffer DEF Signal, Done, IInv, MainInv, From
<1>5. ThreadInv'
  BY <1>1, <1>2 DEF Signal, Done, IInv, ThreadInv, From, ioVars, fixVars
<1>6. main >= 22 /\ Straddled => Straddled'
  BY <1>1, <1>2 DEF Signal, IInv, Straddled, MainInv, From, fixVars
<1>7. PlaceInv' /\ UnwoundInv'
  BY <1>1, <1>2, <1>6, MainMoves DEF Signal, Done, ioVars
<1> QED
  BY <1>3, <1>4, <1>5, <1>7 DEF IInv

LEMMA StopStep ==
    ASSUME IInv, NEW t \in {"io", "fix"}, Stop(t)
    PROVE  IInv'
<1>1. main \in 1..31 /\ Over = 32
  BY Where DEF Stop, IInv, TypeOK
<1>2. \/ main = 16 /\ t = "io"
      \/ main = 27 /\ t = "fix"
  BY Where DEF Stop, IInv, TypeOK
<1>3. TypeOK'
  BY <1>1, <1>2 DEF Stop, Done, IInv, TypeOK, ioVars, fixVars
<1>4. MainInv'
  BY <1>1, <1>2, EntriesDiffer DEF Stop, Done, IInv, MainInv, From
<1>5. ThreadInv'
  BY <1>1, <1>2 DEF Stop, Done, IInv, ThreadInv, From, ioVars, fixVars
<1>6. main >= 22 /\ Straddled => Straddled'
  BY <1>1, <1>2 DEF Stop, IInv, Straddled, MainInv, From, fixVars
<1>7. PlaceInv' /\ UnwoundInv'
  BY <1>1, <1>2, <1>6, MainMoves DEF Stop, Done, ioVars
<1> QED
  BY <1>3, <1>4, <1>5, <1>7 DEF IInv

LEMMA JoinIoStep ==
    ASSUME IInv, JoinIo
    PROVE  IInv'
<1>1. main \in 1..31 /\ Over = 32
  BY Where DEF JoinIo, IInv, TypeOK
<1>2. main = 17
  BY Where DEF JoinIo, IInv, TypeOK
<1>3. TypeOK'
  BY <1>1, <1>2 DEF JoinIo, Done, IInv, TypeOK, ioVars, fixVars
<1>4. MainInv'
  BY <1>1, <1>2, EntriesDiffer DEF JoinIo, Done, IInv, MainInv, From
<1>5. ThreadInv'
  BY <1>1, <1>2 DEF JoinIo, Done, IInv, ThreadInv, From, ioVars, fixVars
<1>6. main >= 22 /\ Straddled => Straddled'
  BY <1>1, <1>2 DEF JoinIo, IInv, Straddled, MainInv, From, fixVars
<1>7. PlaceInv' /\ UnwoundInv'
  BY <1>1, <1>2, <1>6, MainMoves DEF JoinIo, Done, ioVars
<1> QED
  BY <1>3, <1>4, <1>5, <1>7 DEF IInv

LEMMA JoinFixStep ==
    ASSUME IInv, JoinFix
    PROVE  IInv'
<1>1. main \in 1..31 /\ Over = 32
  BY Where DEF JoinFix, IInv, TypeOK
<1>2. main = 28
  BY Where DEF JoinFix, IInv, TypeOK
<1>3. TypeOK'
  BY <1>1, <1>2 DEF JoinFix, Done, IInv, TypeOK, ioVars, fixVars
<1>4. MainInv'
  BY <1>1, <1>2, EntriesDiffer DEF JoinFix, Done, IInv, MainInv, From
<1>5. ThreadInv'
  BY <1>1, <1>2 DEF JoinFix, Done, IInv, ThreadInv, From, ioVars, fixVars
<1>6. main >= 22 /\ Straddled => Straddled'
  BY <1>1, <1>2 DEF JoinFix, IInv, Straddled, MainInv, From, fixVars
<1>7. PlaceInv' /\ UnwoundInv'
  BY <1>1, <1>2, <1>6, MainMoves DEF JoinFix, Done, ioVars
<1> QED
  BY <1>3, <1>4, <1>5, <1>7 DEF IInv

LEMMA DropStep ==
    ASSUME IInv, Drop
    PROVE  IInv'
<1>1. main \in 1..31 /\ Over = 32
  BY Where DEF Drop, IInv, TypeOK
<1>2. main = 20
  BY Where DEF Drop, IInv, TypeOK
<1>3. TypeOK'
  BY <1>1, <1>2 DEF Drop, Done, IInv, TypeOK, ioVars, fixVars
<1>4. MainInv'
  BY <1>1, <1>2, EntriesDiffer DEF Drop, Done, IInv, MainInv, From
<1>5. ThreadInv'
  BY <1>1, <1>2 DEF Drop, Done, IInv, ThreadInv, From, ioVars, fixVars
<1>6. main >= 22 /\ Straddled => Straddled'
  BY <1>1, <1>2 DEF Drop, IInv, Straddled, MainInv, From, fixVars
<1>7. PlaceInv' /\ UnwoundInv'
  BY <1>1, <1>2, <1>6, MainMoves DEF Drop, Done, ioVars
<1> QED
  BY <1>3, <1>4, <1>5, <1>7 DEF IInv

\* The end of the unwinding.
LEMMA UnwoundStep ==
    ASSUME IInv, Unwound
    PROVE  IInv'
<1>1. main = 21 /\ Over = 32
  BY Where DEF Unwound, IInv, TypeOK
<1>2. TypeOK'
  BY <1>1 DEF Unwound, Done, IInv, TypeOK, ioVars, fixVars
<1>3. MainInv'
  BY <1>1 DEF Unwound, Done, IInv, MainInv, From
<1>4. ThreadInv'
  BY <1>1 DEF Unwound, Done, IInv, ThreadInv, From, ioVars, fixVars
<1>5. PlaceInv'
  BY <1>1 DEF Unwound, Done, IInv, PlaceInv, From, InCreate, ioVars
<1>6. UnwoundInv'
  BY DEF Unwound, UnwoundInv, Straddled, Suspended, ioVars, fixVars
<1> QED
  BY <1>2, <1>3, <1>4, <1>5, <1>6 DEF IInv

\* A coroutine that is unwound was run by no thread, and its promise goes with it.
LEMMA UnwindStep ==
    ASSUME IInv, NEW c \in Coroutine, Unwind(c)
    PROVE  IInv'
<1>1. main = 21 /\ Over = 32
  BY Where DEF Unwind, IInv, TypeOK
<1>2. io = "ended" /\ \A d \in Coroutine : io # d
  BY <1>1, CoroutinesAreNoStates DEF IInv, ThreadInv, From
<1>3. TypeOK'
  BY <1>1 DEF Unwind, mainVars, IInv, TypeOK, fixVars
<1>4. MainInv' /\ ThreadInv' /\ UnwoundInv'
  BY <1>1 DEF Unwind, mainVars, IInv, MainInv, ThreadInv, UnwoundInv, From, fixVars
<1>5. PlaceInv'
  <2>1. /\ place' = [place EXCEPT ![c] = "over"] /\ promises' = promises \ {c}
        /\ io' = io /\ main' = main /\ DOMAIN place = Coroutine
    BY DEF Unwind, mainVars, IInv, TypeOK
  <2> QED
    BY <1>1, <1>2, <2>1 DEF IInv, PlaceInv, From, InCreate, Running, TypeOK
<1> QED
  BY <1>3, <1>4, <1>5 DEF IInv

LEMMA MainStep ==
    ASSUME IInv, Main
    PROVE  IInv'
BY MakeStep, MakeFailsStep, DestroyStep, CopyStep, PublishStep, StartFixStep, StartIoStep,
   SignalStep, StopStep, JoinIoStep, JoinFixStep, DropStep, UnwoundStep, UnwindStep DEF Main

-----------------------------------------------------------------------------
(* The io thread and QuickFIX's.                                            *)

\* A coroutine is only run between the start and the join, when all is registered.
LEMMA RunsServed ==
    ASSUME IInv, NEW c \in Coroutine, io = c
    PROVE  main \in 14..17 /\ registered = Entry /\ changing = None
<1>1. io \notin {"none", "ended"} /\ main \in 1..32
  BY CoroutinesAreNoStates, OverIs DEF IInv, TypeOK
<1>2. main \in 14..17
  BY <1>1 DEF IInv, ThreadInv, From
<1> QED
  BY <1>2 DEF IInv, MainInv, TypeOK, From, Entry

\* Whatever the io thread does, it leaves main's things alone, and ends when told.
LEMMA IoMoves ==
    ASSUME IInv, main \in 14..17, UNCHANGED <<mainVars, fixVars>>,
           io' \in {"idle"} \cup Coroutine \/ (io' = "ended" /\ "io" \in stopped)
    PROVE  MainInv' /\ ThreadInv' /\ UnwoundInv'
<1>1. io' # "none" /\ (io' = "ended" => main = 17)
  BY CoroutinesAreNoStates DEF IInv, ThreadInv, From
<1>2. MainInv'
  BY DEF IInv, MainInv, From, mainVars
<1>3. ThreadInv'
  BY <1>1 DEF IInv, ThreadInv, From, mainVars, fixVars
<1>4. UnwoundInv'
  BY DEF UnwoundInv, From, mainVars
<1> QED
  BY <1>2, <1>3, <1>4

LEMMA IdleIsBetween ==
    ASSUME IInv, io = "idle"
    PROVE  main \in 14..17 /\ \A c \in Coroutine : io # c /\ place[c] \notin Running
<1>1. main \in 1..32
  BY OverIs DEF IInv, TypeOK
<1>2. \A c \in Coroutine : io # c
  BY CoroutinesAreNoStates
<1> QED
  BY <1>1, <1>2 DEF IInv, ThreadInv, PlaceInv, From

LEMMA AcceptStep ==
    ASSUME IInv, NEW c \in Coroutine, Accept(c)
    PROVE  IInv'
<1>1. /\ io = "idle" /\ place[c] = "unborn" /\ place' = [place EXCEPT ![c] = "recv"]
      /\ UNCHANGED <<mainVars, process, signalled, io, promises, posted, fixVars>>
  BY DEF Accept, Idle, Goto
<1>2. main \in 14..17 /\ \A d \in Coroutine : io # d /\ place[d] \notin Running
  BY <1>1, IdleIsBetween
<1>3. TypeOK'
  BY <1>1 DEF IInv, TypeOK, mainVars, fixVars
<1>4. MainInv' /\ ThreadInv' /\ UnwoundInv'
  BY <1>1, <1>2, IoMoves
<1>5. PlaceInv'
  BY <1>1, <1>2 DEF IInv, PlaceInv, InCreate, From, Running, TypeOK, mainVars
<1> QED
  BY <1>3, <1>4, <1>5 DEF IInv

LEMMA ResumeStep ==
    ASSUME IInv, NEW c \in Coroutine, Resume(c)
    PROVE  IInv'
<1>1. /\ io = "idle" /\ posted' = posted \ {c}
      /\ UNCHANGED <<mainVars, process, signalled, promises, fixVars>>
  BY DEF Resume, Idle
<1>2. \/ place[c] = "recv" /\ place' = [place EXCEPT ![c] = "parse"] /\ io' = c
      \/ place[c] = "recv" /\ place' = [place EXCEPT ![c] = "over"] /\ io' = io
      \/ place[c] = "wait" /\ place' = [place EXCEPT ![c] = "leave"] /\ io' = c
      \/ place[c] = "send" /\ place' = [place EXCEPT ![c] = "recv"] /\ io' = io
      \/ place[c] = "send" /\ place' = [place EXCEPT ![c] = "parse"] /\ io' = c
      \/ place[c] \in {"wait", "over"} /\ place' = place /\ io' = io
  BY DEF Resume, Goto
<1>3. main \in 14..17 /\ \A d \in Coroutine : io # d /\ place[d] \notin Running
  BY <1>1, IdleIsBetween
<1>4. TypeOK'
  BY <1>1, <1>2 DEF IInv, TypeOK, mainVars, fixVars
<1>5. MainInv' /\ ThreadInv' /\ UnwoundInv'
  BY <1>1, <1>2, <1>3, IoMoves
<1>6. place[c] # "wait" => c \notin promises
  BY <1>2 DEF IInv, PlaceInv, InCreate
<1>7. PlaceInv'
  BY <1>1, <1>2, <1>3, <1>6, CoroutinesAreNoStates
     DEF IInv, PlaceInv, InCreate, From, Running, TypeOK, mainVars
<1> QED
  BY <1>4, <1>5, <1>7 DEF IInv

\* What a request looks up is there, so it is not lost.
LEMMA LookUpStep ==
    ASSUME IInv, NEW c \in Coroutine, NEW p \in DOMAIN Wanted, LookUp(c, p)
    PROVE  IInv'
<1>1. /\ io = c /\ place[c] = p
      /\ UNCHANGED <<mainVars, process, signalled, promises, posted, fixVars>>
  BY DEF LookUp, Runs
<1>2. main \in 14..17 /\ registered = Entry
  BY <1>1, RunsServed
<1>3. Wanted[p] \in Entry
  BY DEF Wanted, Entry
<1>4. PICK q \in Following[p] :
        /\ place' = [place EXCEPT ![c] = q]
        /\ io' = IF p # "reply" THEN c ELSE "idle"
  BY <1>2, <1>3 DEF LookUp, Goto
<1>5. /\ p \in {"parse", "route", "convert", "ask", "reply"}
      /\ p # "reply" => q \in {"route", "convert", "ask", "register", "reply"}
      /\ p = "reply" => q = "send"
  BY DEF Wanted, Following
<1>6. TypeOK'
  BY <1>1, <1>4, <1>5 DEF IInv, TypeOK, mainVars, fixVars
<1>7. MainInv' /\ ThreadInv' /\ UnwoundInv'
  BY <1>1, <1>2, <1>4, IoMoves
<1>8. c \notin promises
  BY <1>1, <1>5 DEF IInv, PlaceInv, InCreate
<1>9. PlaceInv'
  BY <1>1, <1>2, <1>4, <1>5, <1>8, CoroutinesAreNoStates
     DEF IInv, PlaceInv, InCreate, From, Running, TypeOK, mainVars
<1> QED
  BY <1>6, <1>7, <1>9 DEF IInv

LEMMA RegisterStep ==
    ASSUME IInv, NEW c \in Coroutine, Register(c)
    PROVE  IInv'
<1>1. /\ io = c /\ place[c] = "register" /\ promises' = promises \cup {c}
      /\ place' = [place EXCEPT ![c] = "wait"] /\ io' = "idle"
      /\ UNCHANGED <<mainVars, process, signalled, posted, fixVars>>
  BY DEF Register, Runs, Goto
<1>2. main \in 14..17
  BY <1>1, RunsServed
<1>3. TypeOK'
  BY <1>1 DEF IInv, TypeOK, mainVars, fixVars
<1>4. MainInv' /\ ThreadInv' /\ UnwoundInv'
  BY <1>1, <1>2, IoMoves
<1>5. PlaceInv'
  BY <1>1, <1>2, CoroutinesAreNoStates
     DEF IInv, PlaceInv, InCreate, From, Running, TypeOK, mainVars
<1> QED
  BY <1>3, <1>4, <1>5 DEF IInv

LEMMA LeaveStep ==
    ASSUME IInv, NEW c \in Coroutine, Leave(c)
    PROVE  IInv'
<1>1. /\ io = c /\ place[c] = "leave" /\ promises' = promises \ {c}
      /\ place' = [place EXCEPT ![c] = "reply"] /\ io' = io
      /\ UNCHANGED <<mainVars, process, signalled, posted, fixVars>>
  BY DEF Leave, Runs, Goto
<1>2. main \in 14..17
  BY <1>1, RunsServed
<1>3. TypeOK'
  BY <1>1 DEF IInv, TypeOK, mainVars, fixVars
<1>4. MainInv' /\ ThreadInv' /\ UnwoundInv'
  BY <1>1, <1>2, IoMoves
<1>5. PlaceInv'
  BY <1>1, <1>2, CoroutinesAreNoStates
     DEF IInv, PlaceInv, InCreate, From, Running, TypeOK, mainVars
<1> QED
  BY <1>3, <1>4, <1>5 DEF IInv

LEMMA IoEndsStep ==
    ASSUME IInv, IoEnds
    PROVE  IInv'
<1>1. /\ io = "idle" /\ "io" \in stopped /\ io' = "ended"
      /\ UNCHANGED <<mainVars, process, signalled, place, promises, posted, fixVars>>
  BY DEF IoEnds
<1>2. main \in 14..17 /\ \A d \in Coroutine : io # d /\ place[d] \notin Running
  BY <1>1, IdleIsBetween
<1>3. TypeOK'
  BY <1>1 DEF IInv, TypeOK, mainVars, fixVars
<1>4. MainInv' /\ ThreadInv' /\ UnwoundInv'
  BY <1>1, <1>2, IoMoves
<1>5. PlaceInv'
  BY <1>1, <1>2, CoroutinesAreNoStates DEF IInv, PlaceInv, InCreate, From, mainVars
<1> QED
  BY <1>3, <1>4, <1>5 DEF IInv

\* QuickFIX's thread and the system's timers and sockets only post.
LEMMA OutsideMoves ==
    ASSUME IInv, TypeOK', UNCHANGED <<mainVars, ioVars>>,
           fix' = fix \/ (fix \notin {"none", "ended"} /\ fix' \notin {"none", "ended"}),
           fix' \in {"called", "locked", "holding", "stuck"} => for' \in Coroutine,
           main >= 22 /\ Straddled => Straddled'
    PROVE  IInv'
<1>1. main \in 1..32
  BY OverIs DEF IInv, TypeOK
<1>2. MainInv'
  BY DEF IInv, MainInv, From, mainVars
<1>3. ThreadInv'
  BY DEF IInv, ThreadInv, From, mainVars, ioVars
<1>4. PlaceInv'
  BY DEF IInv, PlaceInv, From, InCreate, mainVars, ioVars
<1>5. UnwoundInv'
  BY <1>1 DEF IInv, UnwoundInv, From, Suspended, mainVars, ioVars
<1> QED
  BY <1>2, <1>3, <1>4, <1>5 DEF IInv

LEMMA CompleteStep ==
    ASSUME IInv, NEW c \in Coroutine, Complete(c)
    PROVE  IInv'
<1>1. TypeOK'
  BY DEF Complete, IInv, TypeOK, mainVars, ioVars, fixVars
<1>2. Straddled => Straddled'
  BY DEF Complete, Straddled, mainVars, fixVars
<1> QED
  BY <1>1, <1>2, OutsideMoves DEF Complete, fixVars, IInv, ThreadInv

LEMMA InterruptStep ==
    ASSUME IInv, Interrupt
    PROVE  IInv'
<1>1. TypeOK'
  BY DEF Interrupt, IInv, TypeOK, mainVars, ioVars, fixVars
<1>2. Straddled => Straddled'
  BY DEF Interrupt, Straddled, mainVars, fixVars
<1> QED
  BY <1>1, <1>2, OutsideMoves DEF Interrupt, fixVars, IInv, ThreadInv

LEMMA FixStep ==
    ASSUME IInv, FixThread \/ \E c \in Coroutine : FromApp(c)
    PROVE  IInv'
<1>1. UNCHANGED <<mainVars, ioVars, signalled>> /\ process' \in {process, "crashed"}
  BY DEF FixThread, Lock, Find, Post, PostLate, FromApp
<1>2. \/ fix = "idle" /\ fix' = "called" /\ for' \in Coroutine
      \/ /\ for' = for /\ fix \in {"called", "locked", "holding"}
         /\ fix' \in {"idle", "locked", "holding", "stuck"}
  BY DEF FixThread, Lock, Find, Post, PostLate, FromApp
<1>3. for \in Coroutine \/ fix = "idle"
  BY <1>2 DEF IInv, ThreadInv
<1>4. posted' = posted \/ (fix = "holding" /\ posted' = posted \cup {for})
  BY DEF FixThread, Lock, Find, Post, PostLate, FromApp
<1>5. posted' \in SUBSET Coroutine
  BY <1>3, <1>4 DEF IInv, TypeOK
<1>6. TypeOK'
  BY <1>1, <1>2, <1>3, <1>5 DEF IInv, TypeOK, mainVars, ioVars
<1>7. Straddled => Straddled'
  BY DEF FixThread, Lock, Find, Post, PostLate, FromApp, Straddled, mainVars
<1> QED
  BY <1>1, <1>2, <1>3, <1>6, <1>7, OutsideMoves

-----------------------------------------------------------------------------
(* The theorems.                                                            *)

\* What main's place says of all threads is so in every state.
THEOREM Inductive ==
    Spec => []IInv
<1>1. IInv /\ [Next]_vars => IInv'
  <2> SUFFICES ASSUME IInv, [Next]_vars PROVE IInv'
    OBVIOUS
  <2>1. CASE UNCHANGED vars
    <3>1. TypeOK' /\ UNCHANGED <<mainVars, ioVars, fixVars>>
      BY <2>1 DEF vars, IInv, TypeOK, mainVars, ioVars, fixVars
    <3>2. Straddled => Straddled'
      BY <3>1 DEF Straddled, mainVars, fixVars
    <3> QED
      BY <3>1, <3>2, OutsideMoves DEF fixVars, IInv, ThreadInv
  <2> QED
    BY <2>1, MainStep, InterruptStep, IoEndsStep, ResumeStep, RegisterStep, LeaveStep,
       LookUpStep, AcceptStep, CompleteStep, FixStep DEF Next, IoThread
<1> QED
  BY <1>1, InitSound, PTL DEF Spec

\* The types of the threads' places, the registries and what is live.
THEOREM TypeCorrect ==
    Spec => []TypeOK
<1>1. IInv => TypeOK
  BY DEF IInv
<1> QED
  BY <1>1, Inductive, PTL

\* main replaces no registry's map while a coroutine runs.
THEOREM RegistriesAreQuiet ==
    Spec => []RegistriesQuiet
<1>1. IInv => RegistriesQuiet
  BY RunsServed DEF RegistriesQuiet
<1> QED
  BY <1>1, Inductive, PTL

\* No request comes too early or too late for what serves it.
THEOREM RequestsAreServed ==
    Spec => []ServedIsRegistered
<1>1. IInv => ServedIsRegistered
  BY RunsServed DEF ServedIsRegistered, IInv, PlaceInv
<1> QED
  BY <1>1, Inductive, PTL

\* No thread calls what is not yet constructed or already gone.
THEOREM CallsAreThere ==
    Spec => []CalledIsThere
<1>1. IInv => CalledIsThere
  <2> SUFFICES ASSUME IInv PROVE CalledIsThere
    OBVIOUS
  <2>1. main \in 1..32
    BY OverIs DEF IInv, TypeOK
  <2>2. fix \notin {"none", "ended"} =>
            {"libfix_client", "promises", "sessions"} \subseteq live
    BY <2>1 DEF IInv, ThreadInv, MainInv, From
  <2>3. io \notin {"none", "ended"} => {"libhttp_server", "schedule", "server"} \subseteq live
    BY <2>1 DEF IInv, ThreadInv, MainInv, From
  <2>4. ASSUME ~Straddled, NEW c \in Coroutine, Suspended(c)
        PROVE  {"libhttp_server", "libhttp_to_fix", "libfix_client", "promises"} \subseteq live
    <3>1. main \in 14..21
      BY <2>1, <2>4 DEF IInv, PlaceInv, UnwoundInv, From, Suspended
    <3> QED
      BY <3>1 DEF IInv, MainInv, From
  <2>5. \A c \in Coroutine : InCreate(c) => Suspended(c)
    BY DEF InCreate, Suspended
  <2> QED
    BY <2>2, <2>3, <2>4, <2>5 DEF CalledIsThere
<1> QED
  BY <1>1, Inductive, PTL

\* The unwinding leaves no coroutine and no promise behind.
THEOREM UnwindingIsWhole ==
    Spec => []NothingLeft
<1>1. IInv => NothingLeft
  <2> SUFFICES ASSUME IInv, main < Over, Program[main] = <<"destroy", "libhttp_server">>,
                      ~Straddled
               PROVE  promises = {} /\ \A c \in Coroutine : ~Suspended(c)
    BY DEF NothingLeft
  <2>1. main \in 1..31
    BY OverIs DEF IInv, TypeOK
  <2>2. main = 22
    BY <2>1, ProgramIs
  <2>3. \A c \in Coroutine : ~Suspended(c)
    BY <2>2 DEF IInv, UnwoundInv, From
  <2>4. promises = {}
    BY <2>3 DEF IInv, PlaceInv, InCreate, Suspended, TypeOK
  <2> QED
    BY <2>3, <2>4
<1> QED
  BY <1>1, Inductive, PTL

=============================================================================
