---------------------- MODULE ColoredConsoleTraceListener ----------------------
(***************************************************************************)
(* ColoredConsoleTraceListener                                             *)
(* (Essential.Diagnostics.ColoredConsoleTraceListener/Diagnostics): all    *)
(* listeners write to one console under one static lock.  They set its     *)
(* colour, write the message, write a footer, and reset the colour.        *)
(*                                                                         *)
(* A write may throw, and so may the ToString of an operation in the       *)
(* footer.  That may also trace: the thread then enters its lock again.    *)
(***************************************************************************)
EXTENDS Naturals, Sequences, SequencesExt

CONSTANTS
  Thread,         \* the threads of the application
  Listener,       \* the listeners on the standard output
  ErrorListener,  \* those on the error stream, which leave colours alone
  Settings,       \* the attributes that may be configured: functions from Keys
  MaxCalls,       \* bound: how many calls are made
  MaxCallDepth,   \* bound: how many calls of a thread are inside one another
  NoThread        \* nobody

\* The attributes that name a colour, and the event types among these names.
EventType == {"Error", "Start"}
Keys == EventType \cup {"ActivityTracing"}

\* Some of the colours, and what may be configured: one, none, or a name that is none.
ConsoleColor == {"Red", "Gray", "Green", "Blue"}
Setting == ConsoleColor \cup {"unset", "bogus"}

VARIABLES
  settings,  \* Attributes: per key a colour, or what else is configured
  holder,    \* the thread in _consoleLock
  colour,    \* ForegroundColor of the console
  calls,     \* per thread: its calls of WriteColored and WriteLineColored, the innermost last
  lastCall,  \* the last call that was begun
  screen,    \* what was written, by which call, in which colour
  fault      \* history: a call threw after it set the colour, and none has reset it since

consoleVars == <<settings, holder, colour, calls, lastCall, screen, fault>>

ConsoleInit ==
  /\ settings \in Settings \cap [Keys -> Setting]
  /\ holder = NoThread
  /\ colour = "default"
  /\ calls = [t \in Thread |-> <<>>]
  /\ lastCall = 0
  /\ screen = <<>>
  /\ fault = FALSE

IsColour(c) == c \in ConsoleColor

DefaultColour(type) == IF type = "Error" THEN "Red" ELSE "Gray"

\* GetConsoleColor: the colour of the event type, of activity tracing, or the default.
ConsoleColour(type) ==
  IF IsColour(settings[type]) THEN settings[type]
  ELSE IF type = "Start" /\ IsColour(settings["ActivityTracing"]) THEN settings["ActivityTracing"]
  ELSE DefaultColour(type)

\* Mutant: every listener has a lock of its own.
MayEnter_OwnLock(t, l) == \A u \in Thread \ {t} : \A i \in DOMAIN calls[u] : calls[u][i].listener # l

\* The lock is static, and its holder may enter again.
MayEnter(t, l) == holder \in {NoThread, t}

In(t, pc) == calls[t] # <<>> /\ Last(calls[t]).pc = pc

\* SetConsoleColor enters the same lock; inside a ToString, if the thread is in a footer.
SetConsoleColor(t, key, c) ==
  /\ holder \in {NoThread, t}
  /\ calls[t] = <<>> \/ In(t, "footer")
  /\ settings' = [settings EXCEPT ![key] = c]
  /\ UNCHANGED <<holder, colour, calls, lastCall, screen, fault>>

\* A trace or a Write, which has no footer, enters the lock and sets the colour; inside
\* a ToString, if the thread is in a footer.
Enter(t, l, type, footer) ==
  /\ MayEnter(t, l) /\ lastCall < MaxCalls
  /\ calls[t] = <<>> \/ (In(t, "footer") /\ Len(calls[t]) < MaxCallDepth)
  /\ lastCall' = lastCall + 1
  /\ holder' = t
  /\ colour' = IF l \in Listener THEN ConsoleColour(type) ELSE colour
  /\ calls' = [calls EXCEPT ![t] =
       Append([i \in DOMAIN @ |-> IF i = Len(@) THEN [@[i] EXCEPT !.entered = TRUE] ELSE @[i]],
              [id |-> lastCall + 1, listener |-> l, want |-> ConsoleColour(type),
               footer |-> footer, pc |-> "message", entered |-> FALSE])]
  /\ UNCHANGED <<settings, screen, fault>>

Piece(t) == LET c == Last(calls[t]) IN
  [id |-> c.id, thread |-> t, colour |-> colour, listener |-> c.listener,
   want |-> IF c.entered THEN colour ELSE c.want]

Goto(t, pc) == calls' = [calls EXCEPT ![t][Len(calls[t])].pc = pc]

WriteMessage(t) ==
  /\ In(t, "message")
  /\ screen' = Append(screen, Piece(t))
  /\ Goto(t, IF Last(calls[t]).footer THEN "footer" ELSE "reset")
  /\ UNCHANGED <<settings, holder, colour, lastCall, fault>>

WriteFooter(t) ==
  /\ In(t, "footer")
  /\ screen' = Append(screen, Piece(t))
  /\ Goto(t, "reset")
  /\ UNCHANGED <<settings, holder, colour, lastCall, fault>>

\* The thread leaves n of its calls, and the lock with the outermost.
Leave(t, n) ==
  /\ calls' = [calls EXCEPT ![t] = SubSeq(@, 1, Len(@) - n)]
  /\ holder' = IF n = Len(calls[t]) THEN NoThread ELSE holder

\* An exception leaves the call, and the calls around it that do not catch it.
Throw(t, n) ==
  /\ In(t, "message") \/ In(t, "footer")
  /\ Leave(t, n)
  /\ fault' = (fault \/ \E i \in DOMAIN calls[t] :
                          i > Len(calls[t]) - n /\ calls[t][i].listener \in Listener)
  /\ UNCHANGED <<settings, colour, lastCall, screen>>

\* Mutant: the colour is not reset.
ResetColour_Skip(t) ==
  /\ In(t, "reset")
  /\ Leave(t, 1)
  /\ UNCHANGED <<settings, colour, lastCall, screen, fault>>

ResetColour(t) ==
  /\ In(t, "reset")
  /\ LET coloured == Last(calls[t]).listener \in Listener IN
       /\ colour' = IF coloured THEN "default" ELSE colour
       /\ fault' = (fault /\ ~coloured)
  /\ Leave(t, 1)
  /\ UNCHANGED <<settings, lastCall, screen>>

ConsoleNext == \E t \in Thread :
          \/ \E type \in EventType : SetConsoleColor(t, type, "Green")
          \/ \E l \in Listener \cup ErrorListener, type \in EventType, footer \in BOOLEAN :
               Enter(t, l, type, footer)
          \/ WriteMessage(t)
          \/ WriteFooter(t)
          \/ \E n \in 1..Len(calls[t]) : Throw(t, n)
          \/ ResetColour(t)

ConsoleSpec == ConsoleInit /\ [][ConsoleNext]_consoleVars

--------------------------------------------------------------------------------
\* Mutual exclusion: only the holder of the lock is in a call.
OnlyHolder == \A t \in Thread : calls[t] # <<>> <=> holder = t

\* When nobody writes, the console has its own colour, unless the last call that set it
\* threw (the resets at the end of WriteColored and WriteLineColored).
ColourIsReset == holder = NoThread => fault \/ colour = "default"

\* Every line is in the colour of its event, except for a footer that traced, and the
\* pieces of a line are together, but for what its own footer traced
\* (WriteColored, WriteLineColored and GetConsoleColor).
LinesWholeAndColoured ==
  /\ \A i \in DOMAIN screen : screen[i].listener \in Listener => screen[i].colour = screen[i].want
  /\ \A i, j \in DOMAIN screen : screen[i].id = screen[j].id =>
       \A k \in i..j : screen[k].thread = screen[i].thread
================================================================================
