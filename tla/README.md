# A verification development for nodemcu-explore

The repository adds C modules and Lua scripts to the NodeMCU firmware of the
ESP8266: an HTTP client, infrared sending and receiving, a reader of GPS
sentences, a driver of RC522 card readers, and scripts that drive relays,
counters, a stepper motor, a GPS receiver and a display. Everything runs on one
core. What makes it hard is that almost nothing runs to its end in one go: SDK
callbacks, timers, interrupts, queued tasks and Lua functions take turns, each
with static state or with memory that another of them frees.

This directory holds TLA+ modules of the parts with such state, the TLC
configurations that check them, and TLAPS proofs about most of them.
`PROJECT.json` lists the runs, the lines each definition stands for, a slip in
the code for every property (an operator after the comment `Slip:`, which is
used by no specification and shows that the property would notice it), the
hazards and the theorems.

## 1. Inventory

| Part | State | Operations | Module |
|---|---|---|---|
| HTTP client, `app/http/httpclient.c` | one `request_args_t` per hop, its `espconn`, buffer and timer; the count of redirections | `http_get`, `_post`, `_put`, `_delete`, `http_request`; callbacks for lookup, connect, sent, received, disconnect, error, timer | `HttpClient`, `HttpPromise`; its texts: `HttpText` |
| HTTP Lua module, `app/module/http.c` | the static `http_callback_registry` and the Lua registry, shared with other modules | `http.get` etc., `http_callback` | `HttpLua`; the header table: `HttpText` |
| IR protocol, `app/irproto/irproto.c` | none of its own: the decoder's state is in the caller's struct | `ir_send_nec`, `ir_recv_nec` | `IrNec` |
| IR reception, `app/module/irrecv.c` | `dup_mask`, a reader per pin, the posted task | interrupt handler, task, `irrecv.bind` | `IrRecv` |
| IR transmission, `app/module/irsend.c` | carrier settings of the UART | `irsend.send`, `irsend.signal` | `IrLink` (the times) |
| NMEA parser, `app/module/tinynmea.c` | static state, sums, buffers and a pointer into them | `tinynmea.parse` | `Nmea` |
| Stepper motor, `lua-scripts/steppermotorL5.lua` | the movement, a timer, four coils | `step`, `degrotate`, `destroy`, the timer | `Stepper` |
| RC522 driver and slots, `app/rfid/` | the reader's registers and FIFO, the slots | `rc522_sendcmd` with its commands, `rfid_init`, `rfid_request` | `Rc522` |
| Counter, `lua-scripts/counter.lua` | a count, the second its window begins with, the count before it | the pin's function, `speed`, `reset` | `Counter` |
| `gt-u7.lua` | the display | `start`, which feeds the parser | `Nmea` (`Feed`, `Return`); see 8 |
| `relay.lua`, `ssd1306.lua` | a pin; a display | | not modelled, see 8 |
| `app/module/rfid.c`, Makefiles, `user_modules.h` | none | none | not modelled |

How they interact:

- `http.c` hands a C callback to the client and keeps the Lua function in a
  static. The client calls back from an SDK callback, from its timer, or, when
  a lookup fails at once, from inside `http.get`.
- The client and the SDK share the block through `espconn.reverse` and the
  timer's argument; whoever comes last may find it freed.
- `irrecv.c`: the GPIO interrupt writes the readers that a task, posted by the
  same interrupt, reads later, and that `irrecv.bind` creates and resets. The
  queue of the task is shared by all modules, and so are the pins' interrupts.
- `irsend.c` gives `ir_send_nec` two functions, mark and space, and the decoder
  of another device sees the edges.
- `gt-u7.lua` feeds `tinynmea.parse` whatever the UART has collected, cut
  anywhere.
- `ssd1306.lua` uses `http.get`; the other scripts use the timer and the pins.
- `rfid.c` calls `rc522_sendcmd`, which writes registers of a reader that goes on
  by itself and polls it, with nothing but the watchdog to end a poll.
- `counter.lua` is handed edges by the firmware some time after they came, and
  compares their time with a clock that wraps.

What makes each part correct:

- *HTTP client*: nothing freed is used and nothing is leaked in any order of
  callbacks; a call is answered once, or its URL is refused; it is answered in
  the end; a response with a hole is never reported as good; redirections are
  bounded; the body goes out once and is announced.
- *HTTP Lua*: no function is leaked, no other module's key touched, each
  function runs at most once, and with the result of its own call.
- *IR*: what is flagged ready is what was sent, complete, and is handed over
  unless a full queue refuses the task; the decoder recovers from anything.
- *NMEA*: no buffer overrun; what is returned was sent in one sentence with a
  fix; the parser recovers.
- *Stepper*: the field turns evenly, the count is right, the function runs once
  and no coil stays on.
- *Texts*: the client goes where it was sent; the body and the table are what
  the server sent, or a part of it when the connection ends early.
- *Counter*: the speed counts the pulses of the last seconds, all of the present
  one and none that is older.
- *RC522*: no command is given while another is at work, each uses its own
  bytes, and every call returns unless it waits for something that cannot come;
  the first two only until the width of an access sends bytes astray (section 4).

## 2. Modules

`HttpPromise` is what a caller of the client may rely on: a call is idle,
pending, done with a verdict, or dropped (its URL, or the URL of a redirection,
is refused, of which the code tells nobody). Its actions are the moves of one
call; its fair form says that a pending call is settled.

`HttpClient` is the client callback by callback. `req` maps addresses to blocks:
the request with its connection, the lookup, timer and link that refer to it,
which fields are still set, the segments stored. `HttpRequest` is the four
entry points down to `http_raw_request`; `DnsCallback`, `ConnectCallback`,
`SendCallback`, `ReceiveCallback`, `DisconnectCallback`, `ErrorCallback` and
`TimeoutCallback` are the functions of those names. `Finish` is the body of
`http_disconnect_callback`: free, and either answer or start the next hop,
which may fail at once and answer from there. Header texts, chunk sizes and
URLs are abstracted to what the control depends on: whether they are accepted
and whether a response is readable and redirects. The SDK is external: it may
refuse, fail or be silent wherever its interface allows.

`HttpLua` is `http.c` over `HttpPromise` (`Client == INSTANCE HttpPromise`):
the C code's use of the registry, which other modules use as well and which
hands a freed key out again.

`IrNec` holds the protocol as operators, sender and decoder, in microseconds.
`IrRecv` is the handler, the task and the bind around it; the handler may run
between any two steps of the others. Any post may fail (`Post`), other modules
being free to fill the queue; `refused` remembers that one failed while none of
this module's tasks was queued. Any module may enable the interrupts of a pin
(`Trig`). `IrLink` connects `irsend.c` to a decoder with the times the code makes:
marks rounded down to carrier periods, spaces from which the last character in the
UART takes its time (`Shifting`) and to which interrupts may add (`Delay`), and edges
seen late (`Lag`). `late` is how late the last one was: it makes the interval that
it ends longer, and the next one shorter.

`Nmea` has `parse` as an operator on its static variables, `Feed` as one turn
of the loop of `nmea_parse` and `Return` as its end; receiver and line are
external, and may lose, repeat or replace a character or cut a sentence off. A
byte is the set of its bits, so that the sums are real exclusive ors.

`Stepper` is one motor object: `Step`, `Tick` (`_do_step` by the timer) and
`Destroy`, with the function of a movement running before the movement is
forgotten, as in the code.

`HttpText` is about the data `HttpClient` abstracts: the URL of `http_request`,
status line, header and chunked body in `http_disconnect_callback` and
`http_chunked_decode`, the next URL of a redirect in `http_disconnect_callback`, and the table that
`http_callback` makes for Lua. A text is a sequence of words, with single
characters where the code looks at them. What is read behind the end of a text
or through a pointer that points nowhere is `Outside`, of which nothing is
assumed but that it is no body, no table and no answer (`OutsideConstant`). The actions are those of a server that writes a response word by word;
what it means is kept beside it, and the properties compare the two.

`Counter` is one object of `counter.lua`. `pulses` holds what the script does not
keep, the time of each pulse, so that the speed has something to be compared
with. Edges wait in a queue with the time they came; the function of a pulse
may reset the object.

`Rc522` is `rc522_sendcmd` one register access per step (`at` is the step; `After`
the order of the steps of each command), interleaved with the reader: finishing
commands, computing a CRC, sending, receiving. `wire` is what `SPI_BITSIZE` makes
of an access: `sizeof(u8)` is 1, so that two bits are exchanged and not 16; the
other value, 8, is what the driver's callers assume, and lets the rest of the
driver be checked. At one bit `to_fifo` still sends its argument in whole bytes,
which the reader takes for an address and data out of step: `Astray` lists what
that may do, and `stirred` remembers that it happened. `from_fifo` clocks the answer
out of the FIFO before it reads, so that what it returns is no answer; the model
keeps what the FIFO held. `rfid_request_untaken` is a request of a slot with no
device. `silent` says that no card answers; the watchdog restarts the
chip in the loop that feeds it but once.

The `MC` modules only name constants for TLC; where a configuration can name
them itself there is none.

## 3. Passing runs

| Run | Instance | What it shows |
|---|---|---|
| `http_client` | 1 call, 4 blocks, 2 redirections, buffer of 2, 2 segments a link | the client's memory, answers, redirections; it implements `HttpPromise` with its liveness |
| `http_lua` | 3 calls, 3 keys | the registry, the static key and who gets which result |
| `irrecv_code` | codes of 3 bits, 1 pin, pulses 149 us off, stray pulses | a ready code is whole and right; the decoder recovers |
| `irrecv_pins` | 2 pins, codes of 1 bit, a queue of 1 that may be full of others' tasks | a ready code is handed over, unless its post is lost with none queued |
| `ir_link` | codes of 6 bits in bytes of 3, edges up to 117 us late, spaces up to 64 us longer | what the sender really emits is decoded |
| `nmea` | 3 sentences, short buffers, 7 intruding characters | buffers, no mixed sentences, recovery |
| `stepper` | 3 modes, movements of 0, 1, 4, 9 steps | direction, count, end of movements, coils |
| `rc522` | 4 slots, all 15 calls, accesses of 1 bit and of 8 | no command is disturbed and each uses its own bytes, until bytes go astray; which calls may not end |
| `counter` | a second of 2, a clock that wraps at 7, until 15 | which pulses the speed counts |
| `http_text` | 2 first URLs, 6 targets, 5 other fields, 6 pieces of body | URL, redirection, body, table, early ends |

Why these bounds are enough:

- *http_client*. Calls share nothing but the heap, from which each takes fresh
  addresses, so one call shows every interleaving of its own callbacks; the
  theorems of section 6 hold for any number of calls and blocks. Four blocks
  are one more than the hops allowed, so that a fourth hop would be seen. Two
  segments and a buffer of two (the terminator takes one) let a first or a
  later segment be lost, and a segment arrive after the discard.
- *http_lua*. With three keys two functions and another module's value can be
  there together, and a freed key can be reused; three calls let one be left
  over from a refused URL, one overlap and one follow.
- *irrecv_code*. The decoder treats all bits alike but for the first and the
  last; three bits have a middle one, and a length left over plus a new code
  passes the width (6), as 32 + 32 passes 64. An offset of 149 is the last one
  `match` accepts. The stray pulses are one that fits nowhere, a mark and an
  AGC mark.
- *irrecv_pins*. With two pins a post can be lost while the task of the other pin
  is queued or runs, and while none is. A queue of one entry has both cases; that
  other modules fill it is a choice at each post.
- *ir_link*. Times are the real ones; two bytes of three bits suffice to see
  order within and between bytes. The lags and delays are the ends of what
  `LinkConstants` allows, and the bounds are tight: an edge 118 us late, or a space
  65 us longer, is a pulse `match` refuses.
- *nmea*. Each buffer is two bytes larger than a digit needs, so that both cut
  and whole fields occur. At most one character of a sentence is spoilt: two
  that cancel in the sum are beyond any 8 bit sum and would make `Genuine`
  false of every implementation. `VIEW View` drops what an earlier sentence
  left in variables that are written before they are read again (the comment
  in `MCNmea` says which).
- *stepper*. Tables have 4 or 8 entries: nine steps go past the end of both.

- *rc522*. The calls are all that the driver tells apart: the command, and
  whether there is an argument, is one byte, fits or does not. A call is followed by any other, in
  any state the first may leave the reader in. Four is `RFID_DEV_MAX`.
- *counter*. The horizon holds two wraps, at times that are no whole seconds
  (7 is odd); a leap of 5 passes two seconds at once; three pulses are one before
  the window, one that moves it and one in it; two edges wait, so that one is
  handed over after time went on.
- *http_text*. The pieces of the body look like a size, a line end, an empty line,
  a header and the word that is searched for, and one is of 16 words, the first
  length with two digits. The hosts are as long as fits and too long; the paths have
  a colon, a query, a slash in it. Two redirections show one from a place that
  was itself redirected to.

Deadlock is checked for `ir_link`. The others may stop: calls are used up
(`http_client`, `http_lua`), an object is destroyed (`stepper`), a fault ends a
behaviour (`IrRecv`), a server has said all (`http_text`), a call waits for what
never comes (`rc522`), time is over (`counter`), a spoilt character is the last one
of the line (`nmea` never really stops; `Return` repeats).

## 4. Where code and text disagree

Two runs check what the repository says of itself and find a behaviour of the
code that does otherwise:

- `http_lua_overlap`: with two calls pending the function of the second is given
  the result of the first, and the first function never runs (`http.c:133`).
- `ir_link_bytes`: `MASK_FOR_ONE_BYTE` is 1 (`irproto.c:41`), so `irsend.send`
  sends another code than it was passed. `SentIsDecoded` shows the rest of the
  path is right.

The models also keep facts that contradict no text but that a reader of the code
should know, since the properties are stated around them:

- *HTTP client*. Headers passed by a script are freed once sent
  (`httpclient.c:268`): the request after a redirection has none. The status
  -1 is for "TCP or DNS error" (`httpclient.h:34`), but when the connection fails
  after a response came, the callback gets the status of what is in the buffer
  (`http_error_callback` ends in `http_disconnect_callback`). `HttpClient` follows the
  code: an answer is "good" by the buffer alone.
- *HTTP Lua*. A function left behind by a call whose URL was refused is run with
  the result of a later call that passes none (`http.c:130`; hence the condition
  `AllPassed` in `OwnResult`).
- *Texts*. `Location:` and `Transfer-Encoding: chunked` are searched for in all of
  the response, the body and longer field names included, the capital form first
  (`Innocent`, `Misleading`). The folder of a page ends at the last slash of its
  URL, which may be in the query (`Doubtful`). A response that is cut before
  the empty line is answered with a body length that means nothing, and a
  chunk that is cut is read beyond the end of the buffer (`Outside`). A 304 with a
  `Location` is followed.
- *IR reception*. The ready flag is rewritten at each edge (`irrecv.c:80`): an edge
  before the task runs makes it forget a code (when the remote is quiet after a
  code it is handed over: `HandedOver`). A code may be handed over twice, the task not
  clearing its flag (`irrecv.c:115`). Interrupts are enabled before the reader is
  published (`irrecv.c:159-172`), and the handler uses it for any pin of `mask`:
  `GpioIntrUnbound` ends the behaviour with `fault`. The same happens when an edge of a
  bound pin and one of a pin another module enabled come together. The handler
  returns `mask` after its loop has shifted it down to 0 (`irrecv.c:59,89`): the other
  modules never see edges of theirs that came with one of a bound pin. A post that
  fails is ignored (`irrecv.c:86`) and the queue is everybody's: when none of this
  module's own tasks is queued the code stays ready, and nobody is told until a
  later post succeeds (`refused`, named in `HandedOver`).
- *IR transmission*. `wait_tx_empty` (`irsend.c:28`) waits for the FIFO of the UART and
  not for the character that is leaving it, so that each space is shorter by up to
  a carrier period than `send_space` takes. `send_space` adds milliseconds to a clock of microseconds
  for long spaces, and `usec - 5` wraps below 5 (`irsend.c:122`); only
  `irsend.signal` asks for such spaces.
- *Stepper*. `destroy` between the last step of a movement and the tick that
  follows leaves its coils on (`steppermotorL5.lua:145`), which `StoppedIsOff` leaves
  open: it speaks of a timer that is stopped, not of one that is gone.
- *Counter*. After the clock wraps the window seems to lie ahead: the speed
  counts every pulse since it began until the clock passes it again (the condition
  in `SpeedIsRecent`). `reset` leaves the starting time alone. A pulse is an edge at
  which the pin reads high, whatever edge that was, and `create` for a pin that has
  an object returns it and ignores the function passed.
- *RC522*. With accesses of one bit (`SPI_BITSIZE`, the size of a `u8` in bytes) no
  CRC and no transceive returns, hence no `rfid_request`, for all that
  `rc522_sendcmd` says of its "retval" (`rc522.c:358`). Nor is the reader left alone: `to_fifo` sends one
  bit of address and then the argument in whole bytes (`rc522.c:130-133`), and an
  argument of two bytes or more may write any register, the command included
  (`Astray`; `Rested` and `OwnBytes` hold until then). `from_fifo` sends the read addresses
  with `platform_spi_blkwrite` (`rc522.c:157`), which clocks the answer out and drops
  it, so that `blkread` does not return what the card sent and `rfid_request` expects
  (`rfid.c:44`). `check_rfid` looks at the range of a slot and not at whether there is
  a device (`rfid.c:33`): a request of an unused slot reads through NULL and the
  chip restarts. `to_fifo` refuses an argument of more than 64
  bytes, where the table has "∞" for CRC and transceive (`rc522.c:350,354`), and no
  caller looks at the result: `OwnBytes` exempts such an argument. A command that clears the FIFO before it
  transmits has nothing to transmit. `NO_CMD_CHANGE` gives up a CRC or a
  transceive under way while waiting for it. An error leaves the answer in the
  FIFO. Without a card a transceive polls for ever, feeding the watchdog, while the
  others end in a restart; an answer that comes and goes between two looks is
  missed (`InVain` is the list). Slots are never freed.

## 5. Fairness

- `HttpClient`: every lookup calls back (the SDK's resolver gives up by
  itself), every armed timer fires, and a connection that was told to close
  ends, with a disconnect or an error. Nothing is assumed of servers: that a
  silent one does not hang a call is what `KeepsPromise` shows, the timer of
  `http_dns_callback` being the reason.
- `HttpLua`: the client settles every call, which is what `KeepsPromise` says.
- `IrRecv`: queued tasks run, and a task or bind once begun goes on. Nothing is
  assumed of remotes, nor that a post ever succeeds.
- `Stepper`: a running timer fires.
- `Rc522`: the driver goes on (`WF_vars(Driver)`: it is a loop on one core), the
  reader does what it is told (`Reader`), the watchdog bites (`Restart`). Nothing is
  assumed of cards.
- `Counter`, `HttpText` and `Nmea` state none: they have no liveness property.

## 6. Proofs

`HttpClientProofs` proves, for any calls, addresses and limits that satisfy
`HttpConstants`:

| Theorem | |
|---|---|
| `Invariance` | `Spec => []IInv` |
| `TypeCorrect` | `TypeOK`: also that the buffer never outgrows its limit |
| `NoDangling` | `NoDanglingCallback`: no callback can find freed memory |
| `NoBlockOrphaned` | `NoOrphan`: no block is leaked without a wake-up |
| `AtMostOneAnswer` | `AnsweredOnce` |
| `NothingForgotten` | `NoSilentLoss` |
| `Refinement` | `Spec => ImplementsPromise` |

None of the properties is inductive. `IInv` adds to `TypeOK`, of each block by
itself (`Sound`), which references it may have in each state of its memory, so
that a timer, lookup or closing link is always there to wake it; and, of each
call (`Tracked`), that it has no block before it begins, exactly one live block
while it is pending, and none after it is settled. `Sound` is what a callback
needs to know to be safe on its own block. `Tracked` is what makes the answer
unique: the block that calls back is the only live one of its call, so that no
other can answer again. A step either changes one live block and keeps it live
(`KeepStep`), or closes it and settles its call (`CloseStep`), or closes it and
opens a fresh one for the same call (`LaunchStep`); each action is one of these
or, in `Finish`, a choice between the last two. The refinement proof maps a
step to the move of `HttpPromise` of the one call it touches.

Its second part is about what goes over the wire:

| Theorem | |
|---|---|
| `DataInvariance` | `Spec => [](IInv /\ DataInv)` |
| `BodyOnceAnnounced` | `BodyAnnounced`: the body goes out once, where the head announced it |
| `LossIsError` | `LostMeansError`: a response with a hole is an error |
| `BoundedHops` | `HopsBounded`: no more than `FollowMax + 1` connections a call |

`Works` says what a handler may do to its block and `Shape` what a step may do
to all of them (one block worked on, the first of a call begun, or one that
makes way for the next hop), so that a new invariant is shown against three
kinds of step and not eight handlers. `OnWire` and `Whole` speak of one block:
the latter says that a buffer which is not void after a loss begins behind the
first segment, which is why it cannot be taken for a response. `Failed` carries
the error to the answer, which is final. `Apart` puts the blocks of a call on
different hops, the live one on the last; `HopsBounded` counts them by the
injection `follow` into `0..FollowMax`.

`HttpLuaProofs` proves, for any calls and keys that satisfy `LuaConstants`:

| Theorem | |
|---|---|
| `LuaInvariance` | `LuaSpec => []IInv` |
| `LuaTypes` | `LuaTypeOK` |
| `NoneLeaked` | `NoLeakedFunction`: a function is in the registry only under the static key |
| `OthersUntouched` | `OthersKept`: keys of other modules are left alone |
| `OneRun` | `RunsAtMostOnce` |
| `OwnResults` | `OwnResult`: one call at a time, each with a function, gets its own result |

The invariant adds to the types what the registry holds under each key
(`Holds`), that a function which waits there has not run (`Waiting`), that one
which ran ran once (`Ran`), and, for a script that does not overlap its calls,
that the function kept is the one of the call that is pending (`Paired`).
`OneRun` needs `Holds` because only there being no second key for a function
keeps it from being run again.

Its second part is about `HttpText`, for responses with any number of fields and
pieces, chains of redirections of any length, and any data that satisfy
`TextConstants` and `OutsideConstant`:

| Theorem | |
|---|---|
| `TableReadRight` | `TableArrives`: the table a function is given is the header that was sent |
| `RedirectionsRight` | `HopIsMeant`: the client is where the last server meant |
| `BodyReadRight` | `BodyArrives`: a whole response is an answer with the body that was sent |
| `CutReadRight` | `CutIsPrefix`: of a response that is cut anywhere, an answer has the start of the body |

`TextConstants` says of the data:

- fields are as HTTP has them (`WellFormed`: no colon in a name, no line end in a
  field, the spaces before a value no part of it);
- none of the words that the client searches for in all of the response (`Searched`)
  begins a field within a value (`Clean`), or ends a name but its own, except in
  `Content-Location`, which is there to mislead the client. Of a body this is not
  assumed: it is a condition of the properties (`Innocent`), since a body is free to
  have them and the client then goes astray (section 4);
- the only transfer encoding is `chunked`, written with one space as the client
  searches for it;
- references have the form of a URL (`Reference`): no colon and no slash in a host, a
  path that begins with a slash, a reference beside the page that begins neither with
  one nor with a scheme;
- a piece is not empty, and its size, like a port, has at most two digits, of those of
  `Digits`. The digits are a bound of the model: `Number` is a table, which stands for
  `strtoul`.

That `OutsideConstant` is an assumption of its own lets a leaf cite it alone.

Three invariants are each built on the one before:

- `HeadInv` says where in the text each field stands (`Course`) and that behind the
  last one there is nothing yet or a line end, which is why no word of the body gets
  into the table.
- `BodyInv` adds what stands behind the head (`Bodies`): the pieces one after the other
  or, if a field says so, each in a chunk of its own, at places that a function gives
  (`Laying`), with the last chunk behind them once the response is over. `BodyArrives`
  and `CutIsPrefix` speak of the text alone; without the places nothing says that
  the decoder, which finds the next chunk by adding up sizes, finds a chunk there.
- `HopInv` adds that a response begins only when the URL was not refused, and that
  one field at most refers to another page (`OneRef`). `HopIsMeant` by itself is
  not inductive: `Follow` reads the reference back from the text, and without
  `BodyInv` nothing says that the first `Location:` found there is that of the field.

The argument for `RedirectionsRight`: `UrlRead` shows that `http_request` takes a
written URL apart into what it means, with and without port and path; a searched word
stands in the text where a field has it as its name and nowhere else
(`LocationWord`), hence `LocationFound`; and `RedirectedIs` joins the two for each
form of reference. For the body: `CodingFound` decides whether the client decodes;
`ChunkRead` and `LastRead` are one turn of `http_chunked_decode` at the place of a
chunk and of the last one, `ChunkCut` is the turn at a chunk that was cut, which ends
there or is `Outside`; `ChunksRead` goes through the chunks from the last to the
first, for a whole body and one that is cut alike (`Yields`). `PartsFound` shows that the loop of
`http_callback` finds the parts of a field wherever it stands. The table is made
from behind: `LinesThere` shows that the recursive function of `Table` exists, for a
turn of the loop looks only at places further on (`OnlyBehind`), and `TableRead`
goes through the fields from the last to the first, each adding to the table what
`TableMore` says.

`StepperProofs` proves, for movements of any length:

| Theorem | |
|---|---|
| `StepperInvariance` | `Spec => []IInv` |
| `StepperTypes` | `TypeOK`: also that no movement steps past its count |
| `NoHeating` | `StoppedIsOff`: no coil is on while the timer is stopped |
| `CountKept` | `Counted`: a movement that ends by itself gave one signal more than asked for, and called its function once |
| `EvenTurns` | `Turns`: the field turns by the same angle at every step, the wrap included |

Its invariant says of a movement under way (`UnderWay`) that the coils are
those of the step before the one due, that as many signals were given, and that
the timer runs. `SignalField` is the lemma about the tables: the coils of a step
put the field at an angle that is linear in the step modulo a full turn, which
is what makes the wrap of `Signal` (the index 0 that becomes the last entry) right.

`IrRecvProofs` proves, for codes of every length, any pins, jitters that `match`
accepts, and any stray pulses:

| Theorem | |
|---|---|
| `Invariance` | `Spec => []IInv` |
| `TypeCorrect` | `TypeOK`: also that the length stays in its field |
| `WholeCodes` | `WholeCode`: a code flagged ready is complete |
| `RightCodes` | `RightCode`: and, the burst undisturbed, it is the one in the air |
| `ReadersRecover` | `Recovers`: whatever a reader was left with, the next whole code is read |

`IInv` relates each bound pin's decoder to the burst in the air. `Sound` is of the
decoder alone, for any pulse: in the state before the end, and when ready, the
length is that of a code. `InStep` holds while the burst is undisturbed: the
decoder has given the burst up, or its state, length and bits are those of the
pulse that goes on. `CodePulses` says what the n-th pulse of a code is, `Jittered`
that a pulse which is off is taken for no other, `OnMark`, `OnBit` and their kin what
each does to a decoder in each state, and `StaysInStep` puts them together. The gap
before a burst is what lets a decoder that was left anywhere begin again (`OnGap`).
`ReadersRecover` needs only `TypeOK` of a state: `Recovers` feeds a whole burst to each
reader there is, and the proof follows it pulse by pulse. `Unrolls` takes the fold of
`Recovers` apart into one reader after another, and `OnCourse` says of each,
by induction on the pulses, which state, length and bits it has.

`IrLinkProofs` proves, for codes and bytes of any length and every `Lag` and `Delay` that
satisfy `LinkConstants`:

| Theorem | |
|---|---|
| `SentDecoded` | `SentIsDecoded`: what `ir_send_nec` sends, `ir_recv_nec` reads as the same code |

Its invariant, `LinkInv`, says that what is sent are the pulses of the code and that
the reader is `OnCourse`: at each pulse it has the bits that went out before. `LinkConstants` leaves each interval
within `ACCEPTABLE_BIAS` of its nominal time, whichever of its two edges is late: a
lag takes as much from a space, which the delay loop and the last character cut
short already, and a lag and a delay together add as much to it. `Taken` says of
an interval that the decoder accepts it, and `Lengths` shows it of every mark and
space that is sent. What is sent is what
`reverse_per_byte` leaves of the argument of `irsend.send` (see `ir_link_bytes`). The sender and the
decoder use lengths of their own (`Lengths` compares them), and neither shares a
definition with the other.

`NmeaProofs` proves, for buffers of every size from 2 on (those of the code have 7 to
13 bytes), any sentences and any characters on the line:

| Theorem | |
|---|---|
| `BuffersKept` | `TypeOK`: no field is written past its buffer |
| `SentencesGenuine` | `Genuine`: what is handed out are the fields of one sentence that came as it was sent |
| `ParserRecovers` | `Recovers`: whatever the parser was left with, the next whole sentence is taken |

`TypeOK` is inductive as it stands, for it has the bound on the buffer that is being
filled beside those of the complete ones. The step of interest is the letter of a
latitude, which goes into the buffer its number left (`FillTwins`, `Puts`).
`Genuine` is not: it speaks of what was handed out and says nothing of the one that is
half read. `GenuineInv` adds `Follows`, which relates the parser to the sentence that
is going on: at which place of it the parser is, that its running sum is that of the
characters so far and, once the sentence was spoilt, what its sum or its shape still
gives away (TLC finds it an invariant of the run `nmea` too). Sums are sets of bits
here: the fold of the model is the parity of each bit (`SumIsParity`),
no two characters have the same bits (`BitsTell`), so a character that is wrong or
missing leaves a sum that is (`WrongSum`), and the digits sent for a sum are read as
that sum (`SumRead`). `ParserRecovers` goes through a
sentence character by character (`Parsed`, `SentenceTaken`), by induction, from any
parser that `TypeOK` allows.

`CounterProofs` proves, for every second, clock, queue and number of pulses:

| Theorem | |
|---|---|
| `Invariance` | `Spec => []IInv` |
| `TypeCorrect` | `TypeOK` |
| `SpeedRecent` | `SpeedIsRecent`: no pulse in the speed is older than two seconds, unless the clock wrapped |
| `SpeedComplete` | `SpeedIsComplete`: none of the present second is missing |

`IInv` adds that pulses and edges are in order (`Ordered`), that the window begins
with a whole second and not after its first pulse (`WindowBegins`), and that what
it left out is older than it (`WindowKeeps`). The lemmas `WholeApart` and
`SameSecond` are the arithmetic of rounding under a modulus.

`Rc522Proofs` proves, for any number of slots:

| Theorem | |
|---|---|
| `Invariance` | `Spec => []IInv` |
| `TypeCorrect` | `TypeOK` |
| `RestsBetween` | `Rested`: between calls no command is at work that ends by itself, until bytes went astray |
| `BytesOwned` | `OwnBytes`: each call uses its own bytes, until some went astray, and what it clocks out is its own answer |

`IInv` says which steps a command may be at (`Flow`); that with accesses of one bit
the reader is as it was in the beginning until an argument goes astray (`Unheard`),
after which nothing is claimed of it but its types; and, with accesses of a byte,
what the reader may be doing at each step (`Heard`, one conjunct per step).

## 7. Only model-checked

Liveness (`KeepsPromise`, `FunctionRuns`, `HandedOver`, `ComesToRest`,
`EveryCallEnds`): leads-to under fairness is out of TLAPS's reach here. Every
invariant that a passing run checks is also a theorem.

The theorems of the library on induction take an operator as a parameter, which the
installed provers cannot use. Where a proof needs induction on numbers, it is
from `NatLessThanWellFounded` and `WFMin`: a set of numbers that is not empty has a
least one (`LeastNumber`), hence a set that has 0 and, with each number, the next
has them all (`Induction`). A fold or a recursive function is taken apart first: it is
a `CHOOSE` of a function, which exists, again by induction.

## 8. Not modelled

- `irsend.signal` and spaces beyond 65535 us; the registers of the UART that make
  the carrier.
- Of the RC522: lengths and codes returned, the registers set up once, self test,
  antenna. The operations of `rfid.c` besides `rfid_init` and `rfid_request` are stubs
  that check the range of the slot.
- Of the texts: signs and the prefix `0x`, which `strtol` and `atoi` take; more than
  one `Location` in a response.
- `relay.lua`: each function writes or reads a pin in one call; a model would
  repeat its table of four cases.
- `gt-u7.lua`: what runs is `start`, down to `uart.on` with chunks of at most 128
  bytes, which are the calls of `Nmea`. WiFi, MQTT and the shared timer are set up
  by `_main`, which nothing calls.
- `ssd1306.lua` draws, and its one `http.get` is a call of `HttpLua`.
- `app/module/rfid.c` is an empty table; the Makefiles and `user_modules.h` have no
  behaviour.
- What other modules do with edges of their pins: an interrupt with none of a bound pin
  changes nothing in `irrecv.c`, one with any is kept from them (section 4). An object of `Stepper` is not
  used after it was destroyed (the script would raise an error).

## 9. Plan

Done, in this order: `HttpPromise`, `HttpClient` and its proofs, `HttpLua` and its
proofs, `IrNec`, `IrRecv`, `IrLink`, `Nmea`, `Stepper` and its proofs, `HttpText`,
`Counter` and its proofs, `Rc522` and its proofs, the proofs of `IrRecv`, `Nmea` and
`IrLink`, the proofs of `HttpText`.

Left: `irsend.signal`, with unsigned differences of a clock that wraps; and the tracker of `gt-u7.lua`, should
`_main` be called one day.
