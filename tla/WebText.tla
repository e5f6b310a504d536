------------------------------ MODULE WebText ------------------------------
(***************************************************************************)
(* What the web pages show of the receiver and of the firmware, and the    *)
(* command they can send: the console of the receiver's text (gnss_uart.c, *)
(* two ring buffers that the consumer swaps), the web log (log.c), and the *)
(* handlers that read, clear and send (web_server.c).  The GNSS reader     *)
(* pushes bytes, any task logs, a TCP client writes to the same UART, and  *)
(* one HTTP task serves the requests.                                      *)
(*                                                                         *)
(* A byte of the receiver is a newline, binary, a printable byte that may  *)
(* start a line ($, #, OK, ERR, WARNING), or another printable one; it     *)
(* carries its number.  Escape sequences and carriage returns, which the   *)
(* log strips, are left out.                                               *)
(***************************************************************************)
EXTENDS Integers, Sequences

CONSTANTS ConsoleSize,   \* GNSS_CONSOLE_BUFFER_SIZE
          ConsoleLine,   \* GNSS_CONSOLE_LINE_SIZE
          LogSize,       \* WEB_LOG_BUFFER_SIZE
          LogLine,       \* WEB_LOG_LINE_SIZE
          MaxEvents      \* bound: bytes, log calls, requests, TCP connections

\* No line fills its ring.
ASSUME SizesAssumption ==
    /\ {ConsoleSize, ConsoleLine, LogSize, LogLine, MaxEvents} \subseteq Nat
    /\ ConsoleLine \in 2..ConsoleSize
    /\ LogLine \in 4..LogSize

VARIABLES
    buffers,             \* s_console_buffers
    active_buffer,       \* s_console_active_buffer
    head, used,          \* s_console_head, s_console_used
    line, binary,        \* s_console_line up to its length, s_console_line_binary
    suppressed,          \* s_console_suppress_until_us lies ahead
    log,                 \* s_log_buffer, s_log_head, s_log_used
    pending,             \* s_pending_line up to s_pending_len
    writing,             \* what is left of the text of the task that has s_log_mux
    job,                 \* the request being served
    shown,               \* the text copied for the answer
    client,              \* client_socket of the TCP server is valid
    wire,                \* what was written to the UART last
    received,            \* bytes received from the UART
    said,                \* history: what the console stored since it was emptied
    logged,              \* history: what the log stored
    due,                 \* history: what the answer has to show
    arrived,             \* history: a TCP client came since the last check
    events               \* bound

consoleVars == <<buffers, active_buffer, head, used, line, binary, suppressed, received,
                 said>>
logVars     == <<log, pending, writing, logged>>
uartVars    == <<client, wire, arrived>>
answerVars  == <<job, shown, due>>
textVars    == <<consoleVars, logVars, uartVars, answerVars, events>>

Classes == {"newline", "start", "text", "binary"}
Char(n, class) == [n |-> n, class |-> class]
Newline == Char(0, "newline")
Restarted == Char(0, "R")   \* WEB_LOG_INITIAL_LINE, here one character
NoJob   == [kind |-> "none", buffer |-> 0, start |-> 0, count |-> 0]

\* The types of all variables.
TextTypeOK ==
    /\ active_buffer \in 0..1
    /\ head \in 0..(ConsoleSize - 1) /\ used \in 0..ConsoleSize
    /\ \A i \in DOMAIN line : line[i].n \in 1..received /\ line[i].class \in Classes
    /\ Len(line) < ConsoleLine
    /\ {binary, suppressed, client, arrived} \subseteq BOOLEAN
    /\ log.head \in 0..(LogSize - 1) /\ log.used \in 0..LogSize
    /\ Len(pending) < LogLine /\ Len(writing) < LogLine
    /\ job.kind \in {"none", "console", "answer", "receive", "command", "end"}
    /\ job.buffer \in 0..1 /\ job.start \in 0..(ConsoleSize - 1)
    /\ job.count \in 0..ConsoleSize
    /\ wire \in {"client", "command", "end"}
    /\ events \in 0..MaxEvents

Happens == events < MaxEvents /\ events' = events + 1

-----------------------------------------------------------------------------
(* Ring buffers; console and log have the same.                            *)

\* The data after text was written at h (console_append_locked,
\* append_to_log_buffer_locked; no text is longer than the ring).
Written(data, size, h, text) ==
    [i \in 0..(size - 1) |-> LET k == (i - h + size) % size
                             IN IF k < Len(text) THEN text[k + 1] ELSE data[i]]

Fill(size, u, text) == IF u + Len(text) < size THEN u + Len(text) ELSE size

\* The text in a ring from its oldest character on.
Content(data, size, h, u) == [i \in 1..u |-> data[(h + size - u + i - 1) % size]]

Newest(text, size) ==
    IF Len(text) <= size THEN text ELSE SubSeq(text, Len(text) - size + 1, Len(text))

TextInit ==
    /\ buffers = [b \in 0..1 |-> [i \in 0..(ConsoleSize - 1) |-> Newline]]
    /\ active_buffer = 0 /\ head = 0 /\ used = 0
    /\ line = <<>> /\ binary = FALSE /\ suppressed = FALSE
    /\ log = [data |-> [i \in 0..(LogSize - 1) |-> Restarted], head |-> 1, used |-> 1]
    /\ logged = <<Restarted>>
    /\ pending = <<>> /\ writing = <<>>
    /\ job = NoJob /\ shown = <<>> /\ due = <<>>
    /\ client = FALSE /\ wire = "end" /\ arrived = FALSE
    /\ received = 0
    /\ said = <<>>
    /\ events = 0

-----------------------------------------------------------------------------
(* The console.                                                            *)

\* console_line_interesting: after blanks it begins like a line of the receiver.
\* Whether its checksum or its word is complete is left open.
Interesting(text) ==
    IF \E i \in DOMAIN text : text[i].class = "start" THEN BOOLEAN ELSE {FALSE}

\* console_store_line_locked for the line l: the line, if it is text, and a
\* newline go to the active buffer.
Store(l, binaryLine) ==
    \E interesting \in Interesting(l) :
        IF interesting /\ ~binaryLine
        THEN LET text == Append(l, Newline) IN
             /\ buffers' = [buffers EXCEPT
                             ![active_buffer] = Written(@, ConsoleSize, head, text)]
             /\ head' = (head + Len(text)) % ConsoleSize
             /\ used' = Fill(ConsoleSize, used, text)
             /\ said' = said \o text
        ELSE UNCHANGED <<buffers, head, used, said>>

NotStored == UNCHANGED <<buffers, head, used, said>>

\* What console_push_bytes does with one byte; a chunk is several of them.  A
\* newline after an empty line changes nothing: after binary bytes the console
\* still waits for a likely beginning of a line.
PushNewline == IF line = <<>>
               THEN NotStored /\ UNCHANGED <<line, binary>>
               ELSE /\ Store(line, binary)
                    /\ line' = <<>>
                    /\ binary' = FALSE

\* Mutation: a line may be one longer than its buffer.
PushTextOneMore(c) ==
    LET full == ~binary /\ Len(line) >= ConsoleLine IN
    /\ binary => c.class = "start"
    /\ IF full THEN Store(line, binary) ELSE NotStored
    /\ line' = IF binary \/ full THEN <<c>> ELSE Append(line, c)
    /\ binary' = FALSE

\* Text after binary bytes counts from a likely beginning of a line on.  A line
\* that fills the buffer is stored and goes on as another.
PushText(c) ==
    LET full == ~binary /\ Len(line) + 1 >= ConsoleLine IN
    /\ binary => c.class = "start"
    /\ IF full THEN Store(line, binary) ELSE NotStored
    /\ line' = IF binary \/ full THEN <<c>> ELSE Append(line, c)
    /\ binary' = FALSE

\* Mutation: the text before binary bytes stays, and goes on behind them.
PushBinaryKeepsLine ==
    /\ binary' = FALSE
    /\ NotStored
    /\ UNCHANGED line

PushBinary == /\ binary' = TRUE
              /\ line' = <<>>
              /\ NotStored

SkipText == binary /\ NotStored /\ UNCHANGED <<line, binary>>

\* console_push_bytes while the console is suppressed.
PushSuppressed == /\ line' = <<>>
                  /\ binary' = FALSE
                  /\ NotStored

Push(class) ==
    /\ Happens
    /\ received' = received + 1
    /\ IF suppressed THEN PushSuppressed
       ELSE CASE class = "newline" -> PushNewline
              [] class = "binary"  -> PushBinary
              [] class = "start"   -> PushText(Char(received + 1, class))
              [] class = "text"    -> IF binary THEN SkipText
                                      ELSE PushText(Char(received + 1, class))
    /\ UNCHANGED <<active_buffer, suppressed, logVars, uartVars, answerVars>>

\* 500 ms have passed since the clear.
SuppressionEnds ==
    /\ suppressed
    /\ suppressed' = FALSE
    /\ UNCHANGED <<buffers, active_buffer, head, used, line, binary, received, said>>
    /\ UNCHANGED <<logVars, uartVars, answerVars, events>>

-----------------------------------------------------------------------------
(* The log: append_formatted_text keeps s_log_mux from the first character *)
(* of a text to the last.                                                  *)

\* should_store_line, of the first characters; sanitize_line cuts a line that
\* filled the buffer in front of the newline it was given.
Kept(text) == text[1] = Char(0, "W")

Stored(l, text) ==
    [log    |-> [data |-> Written(l.log.data, LogSize, l.log.head, text),
                 head |-> (l.log.head + Len(text)) % LogSize,
                 used |-> Fill(LogSize, l.log.used, text)],
     logged |-> l.logged \o text,
     pending |-> <<>>]

StorePending(l) ==
    IF Kept(l.pending) THEN Stored(l, l.pending) ELSE [l EXCEPT !.pending = <<>>]

\* One character of append_formatted_text.
PutChar(c, l) ==
    LET room == IF Len(l.pending) + 1 >= LogLine THEN StorePending(l) ELSE l
        put  == [room EXCEPT !.pending = Append(@, c)]
    IN IF c = Newline THEN StorePending(put) ELSE put

\* What log_vprintf may be asked for: a line that is kept or not, or one that
\* was cut to the size of its buffer and so has no newline.
LogText == {<<Char(0, level), Char(0, "a"), Newline>> : level \in {"W", "I"}}
           \union {[i \in 1..(LogLine - 1) |-> Char(0, IF i = 1 THEN "W" ELSE "b")]}

LogVprintf(text) ==
    /\ writing = <<>>
    /\ Happens
    /\ writing' = text
    /\ UNCHANGED <<log, pending, logged, consoleVars, uartVars, answerVars>>

LogChar ==
    /\ writing # <<>>
    /\ writing' = Tail(writing)
    /\ LET l == PutChar(Head(writing), [log |-> log, logged |-> logged, pending |-> pending])
       IN log' = l.log /\ logged' = l.logged /\ pending' = l.pending
    /\ UNCHANGED <<consoleVars, uartVars, answerVars, events>>

-----------------------------------------------------------------------------
(* Requests.                                                               *)

Begins == job = NoJob /\ Happens

\* log_get_handler: log_snapshot copies under the lock of the log.
GetLog ==
    /\ Begins
    /\ writing = <<>>
    /\ shown' = Content(log.data, LogSize, log.head, log.used)
    /\ due' = Newest(logged, LogSize)
    /\ job' = [NoJob EXCEPT !.kind = "answer"]
    /\ UNCHANGED <<consoleVars, logVars, uartVars>>

\* Mutation: the buffer that is read stays the one that is written.
ConsumeInPlace ==
    /\ Begins
    /\ job' = [kind |-> "console", buffer |-> active_buffer, count |-> used,
               start |-> (head + ConsoleSize - used) % ConsoleSize]
    /\ head' = 0 /\ used' = 0
    /\ shown' = <<>>
    /\ due' = Newest(said, ConsoleSize)
    /\ said' = <<>>
    /\ UNCHANGED <<buffers, active_buffer, line, binary, suppressed, received>>
    /\ UNCHANGED <<logVars, uartVars>>

\* gnss_uart_console_consume, under the lock of the console: the buffers are
\* swapped and the other one is empty.
Consume ==
    /\ Begins
    /\ job' = [kind |-> "console", buffer |-> active_buffer, count |-> used,
               start |-> (head + ConsoleSize - used) % ConsoleSize]
    /\ active_buffer' = 1 - active_buffer
    /\ head' = 0 /\ used' = 0
    /\ shown' = <<>>
    /\ due' = Newest(said, ConsoleSize)
    /\ said' = <<>>
    /\ UNCHANGED <<buffers, line, binary, suppressed, received>>
    /\ UNCHANGED <<logVars, uartVars>>

\* It copies without the lock, while the reader goes on.
CopyChar ==
    /\ job.kind = "console"
    /\ Len(shown) < job.count
    /\ LET i == (job.start + Len(shown)) % ConsoleSize
       IN shown' = Append(shown, buffers[job.buffer][i])
    /\ UNCHANGED <<job, due, consoleVars, logVars, uartVars, events>>

Copied ==
    /\ job.kind = "console"
    /\ Len(shown) = job.count
    /\ job' = [NoJob EXCEPT !.kind = "answer"]
    /\ UNCHANGED <<shown, due, consoleVars, logVars, uartVars, events>>

\* The answer is sent, or its client is gone.
Answer ==
    /\ job.kind = "answer"
    /\ job' = NoJob
    /\ shown' = <<>> /\ due' = <<>>
    /\ UNCHANGED <<consoleVars, logVars, uartVars, events>>

\* gnss_log_clear_post_handler, gnss_uart_console_clear
Clear ==
    /\ Begins
    /\ head' = 0 /\ used' = 0
    /\ line' = <<>> /\ binary' = FALSE
    /\ suppressed' = TRUE
    /\ said' = <<>>
    /\ UNCHANGED <<buffers, active_buffer, received, logVars, uartVars, answerVars>>

\* Mutation: the command does not ask for a TCP client.
CommandUnchecked ==
    /\ Begins
    /\ arrived' = FALSE
    /\ job' = [NoJob EXCEPT !.kind = "receive"]
    /\ UNCHANGED <<shown, due, consoleVars, logVars, client, wire>>

\* gnss_command_post_handler: with a TCP client the command is refused.
CommandCheck ==
    /\ Begins
    /\ ~client
    /\ arrived' = FALSE
    /\ job' = [NoJob EXCEPT !.kind = "receive"]
    /\ UNCHANGED <<shown, due, consoleVars, logVars, client, wire>>

\* Receiving fails, or there is nothing to send but line ends.
CommandFails ==
    /\ job.kind = "receive"
    /\ job' = NoJob
    /\ UNCHANGED <<shown, due, consoleVars, logVars, uartVars, events>>

\* gnss_uart_send_command: no one else takes s_uart_tx_mutex, so it is free.
SendCommand ==
    /\ job.kind = "receive"
    /\ wire' = "command"
    /\ job' = [NoJob EXCEPT !.kind = "command"]
    /\ UNCHANGED <<shown, due, consoleVars, logVars, client, arrived, events>>

SendLineEnd ==
    /\ job.kind = "command"
    /\ wire' = "end"
    /\ job' = [NoJob EXCEPT !.kind = "answer"]
    /\ UNCHANGED <<shown, due, consoleVars, logVars, client, arrived, events>>

HttpTask == \/ GetLog \/ Consume \/ CopyChar \/ Copied \/ Answer \/ Clear
            \/ CommandCheck \/ CommandFails \/ SendCommand \/ SendLineEnd

-----------------------------------------------------------------------------
(* The TCP server as TcpBridge has it: it sets client_socket, and writes to *)
(* the UART, without the mutex, what the client sends.                     *)

TcpClientComes == /\ ~client
                  /\ Happens
                  /\ client' = TRUE
                  /\ arrived' = TRUE
                  /\ UNCHANGED <<wire, consoleVars, logVars, answerVars>>

TcpClientWrites == /\ client
                   /\ wire' = "client"
                   /\ UNCHANGED <<client, arrived, consoleVars, logVars, answerVars,
                                  events>>

TcpClientLeaves == /\ client
                   /\ client' = FALSE
                   /\ UNCHANGED <<wire, arrived, consoleVars, logVars, answerVars,
                                  events>>

TextNext == \/ \E class \in Classes : Push(class)
            \/ SuppressionEnds
            \/ \E text \in LogText : LogVprintf(text)
            \/ LogChar
            \/ HttpTask
            \/ TcpClientComes \/ TcpClientWrites \/ TcpClientLeaves

TextSpec == TextInit /\ [][TextNext]_textVars

-----------------------------------------------------------------------------
(* Properties.                                                             *)

\* An answer shows all that the log, or the console since it was last emptied,
\* has stored, or the newest of it that the ring holds: nothing is shown twice,
\* and nothing of what comes while it is copied gets into it.
ShownIsNewest == job.kind = "answer" => shown = due

\* A line of the console is a run of bytes as they came, with nothing taken out
\* of it and no binary byte inside.
ConsoleLinesAreRuns ==
    \A i \in 1..(Len(said) - 1) :
        \/ Newline \in {said[i], said[i + 1]}
        \/ said[i + 1].n = said[i].n + 1

\* A command from the web page and its line end reach the receiver in one
\* piece, unless a TCP client came after the handler had looked for one.
CommandWhole == (job.kind = "command" /\ ~arrived) => wire = "command"
=============================================================================
