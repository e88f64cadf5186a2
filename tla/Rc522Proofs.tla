---------------------------- MODULE Rc522Proofs ----------------------------
(***************************************************************************)
(* Proofs about Rc522, for every number of slots: its types, the rest of   *)
(* the reader between two calls, and that no call uses or takes bytes an   *)
(* earlier one left, the last two as long as no bytes went astray.         *)
(***************************************************************************)
EXTENDS Rc522, TLAPS

-----------------------------------------------------------------------------
(* The invariant.                                                          *)

\* The step of a call is one its command takes.
Flow ==
    /\ call = NoCall <=> at = "end"
    /\ at \in {"crc", "refill", "result"} => call.cmd = "CALC_CRC"
    /\ at \in {"start", "tx", "rx", "check"} => call.cmd = "TRANSCEIVE"
    /\ at \in {"wait", "waiting"} => call.cmd \in {"CALC_CRC", "TRANSMIT", "MEM", "MFAUTHENT"}
    /\ at = "clear" => Reading(call)
    /\ at = "fill" => /\ call.cmd \in {"CALC_CRC", "MEM", "MFAUTHENT", "TRANSCEIVE"}
                      /\ ~Reading(call)
    /\ at \in {"finish", "finishing"} => call.cmd \in Finishing
    /\ at = "take" => Reading(call) \/ call.cmd = "TRANSCEIVE"

\* With accesses of one bit the reader hears of nothing until an argument of
\* two bytes or more has gone astray; after that nothing is known of it.
Unheard ==
    wire = 1 /\ ~stirred =>
        command = "IDLE" /\ modem = "idle" /\ fifo = "empty" /\ error = FALSE

Rest ==
    /\ command \in {"IDLE"} \cup Lasting
    /\ modem = "idle"
    /\ command = "CALC_CRC" => fifo = "empty"

\* What the watchdog leaves: a command that waits for a card.
Waiting == command \in WithCard /\ silent /\ modem = "idle"

Given == fifo = "argument" \/ call.arg = "long"

Exchanging == {"TRANSMIT", "MEM", "MFAUTHENT"}

\* The FIFO when a command that reads it has finished.
Result == fifo = IF call.cmd = "TRANSMIT" THEN "empty" ELSE "answer"

AtEnd == at = "end" => Rest \/ (slots = 0 /\ Waiting)

AtWait == (at = "wait" => Rest) /\ at # "waiting" /\ (at = "clear" => Rest /\ command = "IDLE")

AtExec ==
    at = "exec" =>
        /\ call.cmd \in Exchanging \cup {"CALC_CRC"} =>
              /\ command = "IDLE" /\ modem = "idle"
              /\ IF Reading(call) THEN fifo = "empty" ELSE Given
        /\ call.cmd \notin Exchanging \cup {"CALC_CRC"} =>
              Rest \/ (call.cmd = "SOFT_RESET" /\ Waiting)

AtFill ==
    at = "fill" =>
        /\ modem = "idle"
        /\ command = IF call.cmd = "TRANSCEIVE" THEN "TRANSCEIVE" ELSE "IDLE"

AtCrc ==
    /\ at \in {"crc", "refill", "result"} => command = "CALC_CRC" /\ modem = "idle"
    /\ at \in {"crc", "refill"} => fifo = "empty"
    /\ at = "result" => fifo = "empty" \/ Given

AtFinish ==
    /\ at \in {"finish", "finishing"} =>
          /\ modem = "idle"
          /\ command = "CALC_CRC" => fifo = "empty"
          /\ \/ command = call.cmd /\ (Reading(call) => fifo = "empty")
                /\ (call.cmd \in {"MEM", "MFAUTHENT"} /\ ~Reading(call) => fifo = "argument")
             \/ command = "IDLE" /\ (Reading(call) => Result)
             \/ call.cmd = "NO_CMD_CHANGE" /\ command \in {"IDLE"} \cup Lasting
    /\ at = "finishing" => command \in {"IDLE"} \cup Finishing

AtModem ==
    /\ at \in {"start", "tx", "rx", "check"} => command = "TRANSCEIVE"
    /\ at = "start" => modem = "idle" /\ Given
    /\ modem = "sending" => at = "tx" /\ Given
    /\ modem = "receiving" => at \in {"tx", "rx"}
    /\ at \in {"tx", "rx", "check"} /\ modem = "idle" => error \/ fifo = "answer"

AtTake == at = "take" => modem = "idle" /\ command \in {"IDLE", "TRANSCEIVE"} /\ Result

\* With accesses of a byte, what the reader does at each step of a call.
Heard == AtEnd /\ AtWait /\ AtExec /\ AtFill /\ AtCrc /\ AtFinish /\ AtModem /\ AtTake

IInv == TypeOK /\ Flow /\ Unheard /\ (wire = 8 => Heard)

-----------------------------------------------------------------------------
(* Every step keeps it.                                                    *)

LEMMA CallFacts ==
    ASSUME NEW c \in Calls
    PROVE  /\ c # NoCall
           /\ c.cmd \in Without \cup {"MEM", "MFAUTHENT"} \cup Lasting
           /\ c.arg \in {"none", "byte", "fits", "long"}
           /\ c.cmd \in Without => c.arg = "none"
           /\ c.cmd \in {"MEM", "MFAUTHENT"} => c.arg \in {"none", "fits"}
           /\ c.cmd = "MFAUTHENT" => c.arg = "fits"
           /\ c.cmd \in Lasting => c.arg \in {"byte", "fits", "long"}
BY DEF Calls, NoCall, Without, Lasting

LEMMA InitIInv == Init => IInv
<1> SUFFICES ASSUME Init PROVE IInv
  OBVIOUS
<1>1. TypeOK
  <2>1. 0 \in 0..RFID_DEV_MAX
    BY Rc522Constants
  <2> QED BY <2>1 DEF Init, TypeOK, Commands
<1>2. Flow /\ Unheard
  BY DEF Init, Flow, Unheard
<1>3. Heard
  BY DEF Init, Heard, AtEnd, AtWait, AtExec, AtFill, AtCrc, AtFinish, AtModem, AtTake, Rest
<1> QED BY <1>1, <1>2, <1>3 DEF IInv

\* A call that begins, of the program or of rfid_init.
LEMMA BeginKeeps ==
    ASSUME IInv, ~Busy, slots' \in 1..RFID_DEV_MAX, NEW c \in Calls, Begin(c),
           slots > 0 \/ c.cmd = "SOFT_RESET"
    PROVE  IInv'
<1>1. PICK seen \in Seen : at' = First(c, seen)
  BY DEF Begin
<1>2. /\ call' = c /\ wire' = wire /\ command' = command /\ modem' = modem
      /\ error' = error /\ silent' = silent /\ stirred' = stirred
      /\ fifo' = IF fifo = "empty" THEN "empty" ELSE "left"
      /\ wire \in {1, 8}
      /\ at = "end" /\ slots \in Nat
  BY Rc522Constants DEF Begin, IInv, TypeOK, Flow, Busy
<1>3. at' \in {"exec", "crc", "wait", "fill"}
      /\ (at' = "exec" => c.cmd \in (Without \ {"TRANSMIT"}) \cup {"TRANSCEIVE"})
      /\ (at' = "crc" => c.cmd = "CALC_CRC" /\ seen = "CALC_CRC")
      /\ (at' = "wait" => c.cmd \in {"CALC_CRC", "TRANSMIT", "MEM", "MFAUTHENT"})
      /\ (at' = "fill" => c.cmd = "TRANSCEIVE" /\ seen = "TRANSCEIVE")
  BY <1>1, CallFacts DEF First, Without, Lasting
<1>4. TypeOK'
  BY <1>2, <1>3 DEF IInv, TypeOK
<1>5. Flow'
  BY <1>2, <1>3, CallFacts DEF Flow, Reading
<1>6. Unheard'
  BY <1>2 DEF IInv, Unheard
<1>7. ASSUME wire = 8 PROVE Heard'
  <2>1. Rest \/ (slots = 0 /\ Waiting)
    BY <1>2, <1>7 DEF IInv, Heard, AtEnd
  <2>2. Rest => Rest'
    BY <1>2 DEF Rest
  <2>3. Waiting => Waiting'
    BY <1>2 DEF Waiting
  <2>4. slots = 0 => at' = "exec" /\ c.cmd = "SOFT_RESET"
    BY <1>1, <1>2 DEF First, Without
  <2>5. seen = command /\ modem' = "idle"
    BY <1>1, <1>2, <1>7, <2>1 DEF Seen, Rest, Waiting
  <2>6. AtEnd' /\ AtFinish' /\ AtTake'
    BY <1>3 DEF AtEnd, AtFinish, AtTake
  <2>7. AtWait'
    BY <1>3, <2>1, <2>2, <2>4 DEF AtWait
  <2>8. AtExec'
    BY <1>2, <1>3, <2>1, <2>2, <2>3, <2>4 DEF AtExec, Exchanging, Without
  <2>9. AtFill'
    BY <1>2, <1>3, <2>5 DEF AtFill
  <2>10. AtCrc'
    BY <1>2, <1>3, <2>1, <2>4, <2>5 DEF AtCrc, Rest
  <2>11. AtModem'
    BY <1>3, <2>5 DEF AtModem
  <2> QED BY <2>6, <2>7, <2>8, <2>9, <2>10, <2>11 DEF Heard
<1> QED BY <1>2, <1>4, <1>5, <1>6, <1>7 DEF IInv

LEMMA SlotsKeep ==
    ASSUME IInv, rfid_init \/ rc522_sendcmd
    PROVE  IInv'
<1>1. slots \in 0..RFID_DEV_MAX
  BY DEF IInv, TypeOK
<1>2. CASE rfid_init
  <2>1. [cmd |-> "SOFT_RESET", arg |-> "none"] \in Calls
    BY DEF Calls, Without
  <2>2. slots' \in 1..RFID_DEV_MAX
    BY <1>1, <1>2, Rc522Constants DEF rfid_init
  <2> QED BY <1>2, <2>1, <2>2, BeginKeeps DEF rfid_init
<1>3. CASE rc522_sendcmd
  <2>1. PICK c \in Calls : Begin(c)
    BY <1>3 DEF rc522_sendcmd
  <2>2. ~Busy /\ slots > 0 /\ slots' \in 1..RFID_DEV_MAX
    BY <1>1, <1>3, Rc522Constants DEF rc522_sendcmd
  <2> QED BY <2>1, <2>2, BeginKeeps
<1> QED BY <1>2, <1>3

\* What holds of the call before a step of the driver.
LEMMA DriverFacts ==
    ASSUME IInv, at # "end"
    PROVE  /\ call \in Calls /\ call # NoCall
           /\ call.cmd \in Without \cup {"MEM", "MFAUTHENT"} \cup Lasting
           /\ call.arg \in {"none", "byte", "fits", "long"}
           /\ wire \in {1, 8}
BY CallFacts DEF IInv, TypeOK, Flow

\* Proceeding keeps what does not concern the reader.
LEMMA ProceedKeeps ==
    ASSUME IInv, at # "end", NEW op, Proceed(op),
           op \in {"end", "exec", "wait", "waiting", "finish", "finishing", "clear", "fill",
                  "refill", "crc", "result", "start", "tx", "rx", "check", "take"}
    PROVE  /\ at' = op /\ wire' = wire /\ slots' = slots
           /\ call' \in Calls \cup {NoCall} /\ slots' \in 0..RFID_DEV_MAX
           /\ op # "end" => call' = call
           /\ call' = NoCall <=> at' = "end"
BY DriverFacts DEF Proceed, IInv, TypeOK

\* A step of the driver other than wait_cmd, exec_cmd and check_error, which
\* goes on with the step that follows and leaves the command alone.
LEMMA AfterFacts ==
    ASSUME IInv, at # "end", NEW step \in {"exec", "wait", "finish", "clear", "fill", "refill",
               "crc", "result", "start", "tx", "rx", "check", "take"},
           at = step \/ (at = "waiting" /\ step = "wait") \/ (at = "finishing" /\ step = "finish")
    PROVE  /\ step = "wait" => After(call, step) = IF Reading(call) THEN "clear" ELSE "fill"
           /\ step = "clear" => After(call, step) = "exec"
           /\ step = "fill" =>
                 After(call, step) = IF call.cmd = "TRANSCEIVE" THEN "start" ELSE "exec"
           /\ step = "exec" =>
                 After(call, step) = IF call.cmd \in Finishing THEN "finish"
                                     ELSE IF call.cmd = "CALC_CRC" THEN "result"
                                     ELSE IF call.cmd = "TRANSCEIVE" THEN "fill" ELSE "end"
           /\ step = "finish" => After(call, step) = IF Reading(call) THEN "take" ELSE "end"
           /\ step = "crc" => After(call, step) = "refill"
           /\ step = "refill" => After(call, step) = "result"
           /\ step = "start" => After(call, step) = "tx"
           /\ step = "tx" => After(call, step) = "rx"
           /\ step = "rx" => After(call, step) = "check"
           /\ step = "check" => After(call, step) = "take"
           /\ step \in {"take", "result"} => After(call, step) = "end"
           /\ After(call, step) \in {"end", "exec", "finish", "clear", "fill", "refill", "result",
                                     "start", "tx", "rx", "check", "take"}
BY DEF After, Awaited, Finishing

LEMMA CrcKeeps ==
    ASSUME IInv, wait_crc_done
    PROVE  IInv'
<1>1. at \in {"crc", "result"} /\ Proceed(After(call, at))
  BY DEF wait_crc_done
<1>2. at # "end"
  BY <1>1
<1>3. /\ at' = After(call, at) /\ wire' = wire /\ slots' = slots
      /\ call' \in Calls \cup {NoCall} /\ slots' \in 0..RFID_DEV_MAX
      /\ at' # "end" => call' = call
      /\ call' = NoCall <=> at' = "end"
  BY <1>1, <1>2, AfterFacts, ProceedKeeps
<1>4. TypeOK'
  BY <1>1, <1>2, <1>3, AfterFacts, DriverFacts DEF wait_crc_done, IInv, TypeOK, reader
<1>5. Flow'
  BY <1>1, <1>2, <1>3, AfterFacts, DriverFacts DEF IInv, Flow, Reading, Finishing, Without, Lasting
<1>6. Unheard'
  BY <1>1, <1>2, <1>3 DEF wait_crc_done, IInv, Unheard, reader
<1>7. ASSUME wire = 8 PROVE Heard'
  BY <1>1, <1>2, <1>3, <1>7, AfterFacts, DriverFacts DEF wait_crc_done, reader, IInv, Flow, Heard,
     AtEnd, AtWait, AtExec, AtFill, AtCrc, AtFinish, AtModem, AtTake, Rest, Waiting, Given, Result,
     Exchanging, Reading, Lasting
<1> QED BY <1>3, <1>4, <1>5, <1>6, <1>7, DriverFacts DEF IInv

LEMMA TransmitKeeps ==
    ASSUME IInv, wait_transmit_done
    PROVE  IInv'
<1>1. at = "tx" /\ Proceed(After(call, at))
  BY DEF wait_transmit_done
<1>2. at # "end"
  BY <1>1
<1>3. /\ at' = After(call, at) /\ wire' = wire /\ slots' = slots
      /\ call' \in Calls \cup {NoCall} /\ slots' \in 0..RFID_DEV_MAX
      /\ at' # "end" => call' = call
      /\ call' = NoCall <=> at' = "end"
  BY <1>1, <1>2, AfterFacts, ProceedKeeps
<1>4. TypeOK'
  BY <1>1, <1>2, <1>3, AfterFacts, DriverFacts DEF wait_transmit_done, IInv, TypeOK, reader
<1>5. Flow'
  BY <1>1, <1>2, <1>3, AfterFacts, DriverFacts DEF IInv, Flow, Reading, Finishing, Without, Lasting
<1>6. Unheard'
  BY <1>1, <1>2, <1>3 DEF wait_transmit_done, IInv, Unheard, reader
<1>7. ASSUME wire = 8 PROVE Heard'
  BY <1>1, <1>2, <1>3, <1>7, AfterFacts, DriverFacts DEF wait_transmit_done, reader, IInv, Flow, Heard,
     AtEnd, AtWait, AtExec, AtFill, AtCrc, AtFinish, AtModem, AtTake, Rest, Waiting, Given, Result,
     Exchanging, Reading, Lasting
<1> QED BY <1>3, <1>4, <1>5, <1>6, <1>7, DriverFacts DEF IInv

LEMMA ReceiveKeeps ==
    ASSUME IInv, wait_receive_done
    PROVE  IInv'
<1>1. at = "rx" /\ Proceed(After(call, at))
  BY DEF wait_receive_done
<1>2. at # "end"
  BY <1>1
<1>3. /\ at' = After(call, at) /\ wire' = wire /\ slots' = slots
      /\ call' \in Calls \cup {NoCall} /\ slots' \in 0..RFID_DEV_MAX
      /\ at' # "end" => call' = call
      /\ call' = NoCall <=> at' = "end"
  BY <1>1, <1>2, AfterFacts, ProceedKeeps
<1>4. TypeOK'
  BY <1>1, <1>2, <1>3, AfterFacts, DriverFacts DEF wait_receive_done, IInv, TypeOK, reader
<1>5. Flow'
  BY <1>1, <1>2, <1>3, AfterFacts, DriverFacts DEF IInv, Flow, Reading, Finishing, Without, Lasting
<1>6. Unheard'
  BY <1>1, <1>2, <1>3 DEF wait_receive_done, IInv, Unheard, reader
<1>7. ASSUME wire = 8 PROVE Heard'
  BY <1>1, <1>2, <1>3, <1>7, AfterFacts, DriverFacts DEF wait_receive_done, reader, IInv, Flow, Heard,
     AtEnd, AtWait, AtExec, AtFill, AtCrc, AtFinish, AtModem, AtTake, Rest, Waiting, Given, Result,
     Exchanging, Reading, Lasting
<1> QED BY <1>3, <1>4, <1>5, <1>6, <1>7, DriverFacts DEF IInv

LEMMA ClearKeeps ==
    ASSUME IInv, clear_fifo
    PROVE  IInv'
<1>1. at = "clear" /\ Proceed(After(call, at))
  BY DEF clear_fifo
<1>2. at # "end"
  BY <1>1
<1>3. /\ at' = After(call, at) /\ wire' = wire /\ slots' = slots
      /\ call' \in Calls \cup {NoCall} /\ slots' \in 0..RFID_DEV_MAX
      /\ at' # "end" => call' = call
      /\ call' = NoCall <=> at' = "end"
  BY <1>1, <1>2, AfterFacts, ProceedKeeps
<1>4. TypeOK'
  BY <1>1, <1>2, <1>3, AfterFacts, DriverFacts DEF clear_fifo, IInv, TypeOK, reader
<1>5. Flow'
  BY <1>1, <1>2, <1>3, AfterFacts, DriverFacts DEF IInv, Flow, Reading, Finishing, Without, Lasting
<1>6. Unheard'
  BY <1>1, <1>2, <1>3 DEF clear_fifo, IInv, Unheard, reader
<1>7. ASSUME wire = 8 PROVE Heard'
  BY <1>1, <1>2, <1>3, <1>7, AfterFacts, DriverFacts DEF clear_fifo, reader, IInv, Flow, Heard,
     AtEnd, AtWait, AtExec, AtFill, AtCrc, AtFinish, AtModem, AtTake, Rest, Waiting, Given, Result,
     Exchanging, Reading, Lasting
<1> QED BY <1>3, <1>4, <1>5, <1>6, <1>7, DriverFacts DEF IInv

LEMMA FillKeeps ==
    ASSUME IInv, to_fifo
    PROVE  IInv'
<1>1. at \in {"fill", "refill"} /\ Proceed(After(call, at))
  BY DEF to_fifo
<1>2. at # "end"
  BY <1>1
<1>3. /\ at' = After(call, at) /\ wire' = wire /\ slots' = slots
      /\ call' \in Calls \cup {NoCall} /\ slots' \in 0..RFID_DEV_MAX
      /\ at' # "end" => call' = call
      /\ call' = NoCall <=> at' = "end"
  BY <1>1, <1>2, AfterFacts, ProceedKeeps
<1>4. \/ /\ wire = 8 /\ fifo' = Filled(call.arg)
         /\ command' = command /\ modem' = modem /\ error' = error /\ stirred' = stirred
      \/ wire = 1 /\ Astray
      \/ wire = 1 /\ UNCHANGED <<reader, stirred>>
  BY DEF to_fifo
<1>5. TypeOK'
  <2>1. Astray => /\ command' \in (Commands \ {"NO_CMD_CHANGE"}) \cup {"OFF"}
                  /\ modem' \in {"idle", "sending", "receiving"}
                  /\ fifo' \in {"empty", "argument", "answer", "left", "stray"}
                  /\ error' \in BOOLEAN /\ stirred' \in BOOLEAN
    BY DEF Astray, reader, IInv, TypeOK
  <2>2. ~Astray => /\ command' = command /\ modem' = modem /\ error' = error
                   /\ stirred' = stirred /\ (fifo' = fifo \/ fifo' = "argument")
    BY <1>4 DEF Filled, reader
  <2>3. silent' = silent
    BY DEF to_fifo
  <2>4. /\ command' \in (Commands \ {"NO_CMD_CHANGE"}) \cup {"OFF"}
        /\ modem' \in {"idle", "sending", "receiving"}
        /\ fifo' \in {"empty", "argument", "answer", "left", "stray"}
        /\ error' \in BOOLEAN /\ stirred' \in BOOLEAN
    <3>1. CASE Astray
      BY <2>1, <3>1
    <3>2. CASE ~Astray
      BY <2>2, <3>2 DEF IInv, TypeOK
    <3> QED BY <3>1, <3>2
  <2> QED BY <1>1, <1>2, <1>3, <2>3, <2>4, AfterFacts, DriverFacts DEF IInv, TypeOK
<1>6. Flow'
  BY <1>1, <1>2, <1>3, AfterFacts, DriverFacts DEF IInv, Flow, Reading, Finishing, Without, Lasting
<1>7. Unheard'
  BY <1>3, <1>4 DEF Astray, IInv, Unheard, reader
<1>8. ASSUME wire = 8 PROVE Heard'
  <2>1. /\ fifo' = Filled(call.arg) /\ command' = command /\ modem' = modem
        /\ error' = error
    BY <1>8, <1>4
  <2> QED BY <1>1, <1>2, <1>3, <1>8, <2>1, AfterFacts, DriverFacts DEF IInv, Flow, Heard,
     AtEnd, AtWait, AtExec, AtFill, AtCrc, AtFinish, AtModem, AtTake, Rest, Waiting, Given, Result,
     Exchanging, Reading, Lasting, Filled
<1> QED BY <1>3, <1>5, <1>6, <1>7, <1>8, DriverFacts DEF IInv

LEMMA StartKeeps ==
    ASSUME IInv, start_send
    PROVE  IInv'
<1>1. at = "start" /\ Proceed(After(call, at))
  BY DEF start_send
<1>2. at # "end"
  BY <1>1
<1>3. /\ at' = After(call, at) /\ wire' = wire /\ slots' = slots
      /\ call' \in Calls \cup {NoCall} /\ slots' \in 0..RFID_DEV_MAX
      /\ at' # "end" => call' = call
      /\ call' = NoCall <=> at' = "end"
  BY <1>1, <1>2, AfterFacts, ProceedKeeps
<1>4. TypeOK'
  <2>1. error' \in BOOLEAN /\ silent' \in BOOLEAN
    BY Zenon DEF start_send, IInv, TypeOK
  <2> QED BY <1>1, <1>2, <1>3, <2>1, AfterFacts, DriverFacts DEF start_send, IInv, TypeOK
<1>5. Flow'
  BY <1>1, <1>2, <1>3, AfterFacts, DriverFacts DEF IInv, Flow, Reading, Finishing, Without, Lasting
<1>6. Unheard'
  BY <1>1, <1>2, <1>3 DEF start_send, IInv, Unheard, reader
<1>7. ASSUME wire = 8 PROVE Heard'
  BY <1>1, <1>2, <1>3, <1>7, AfterFacts, DriverFacts DEF start_send, reader, IInv, Flow, Heard,
     AtEnd, AtWait, AtExec, AtFill, AtCrc, AtFinish, AtModem, AtTake, Rest, Waiting, Given, Result,
     Exchanging, Reading, Lasting
<1> QED BY <1>3, <1>4, <1>5, <1>6, <1>7, DriverFacts DEF IInv

LEMMA TakeKeeps ==
    ASSUME IInv, from_fifo
    PROVE  IInv'
<1>1. at = "take" /\ Proceed(After(call, at))
  BY DEF from_fifo
<1>2. at # "end"
  BY <1>1
<1>3. /\ at' = After(call, at) /\ wire' = wire /\ slots' = slots
      /\ call' \in Calls \cup {NoCall} /\ slots' \in 0..RFID_DEV_MAX
      /\ at' # "end" => call' = call
      /\ call' = NoCall <=> at' = "end"
  BY <1>1, <1>2, AfterFacts, ProceedKeeps
<1>4. TypeOK'
  BY <1>1, <1>2, <1>3, AfterFacts, DriverFacts DEF from_fifo, IInv, TypeOK, reader
<1>5. Flow'
  BY <1>1, <1>2, <1>3, AfterFacts, DriverFacts DEF IInv, Flow, Reading, Finishing, Without, Lasting
<1>6. Unheard'
  BY <1>1, <1>2, <1>3 DEF from_fifo, IInv, Unheard, reader
<1>7. ASSUME wire = 8 PROVE Heard'
  BY <1>1, <1>2, <1>3, <1>7, AfterFacts, DriverFacts DEF from_fifo, reader, IInv, Flow, Heard,
     AtEnd, AtWait, AtExec, AtFill, AtCrc, AtFinish, AtModem, AtTake, Rest, Waiting, Given, Result,
     Exchanging, Reading, Lasting
<1> QED BY <1>3, <1>4, <1>5, <1>6, <1>7, DriverFacts DEF IInv

LEMMA ExecKeeps ==
    ASSUME IInv, exec_cmd
    PROVE  IInv'
<1>1. at = "exec" /\ Proceed(After(call, at))
  BY DEF exec_cmd
<1>2. at # "end"
  BY <1>1
<1>3. /\ at' = After(call, at) /\ wire' = wire /\ slots' = slots
      /\ call' \in Calls \cup {NoCall} /\ slots' \in 0..RFID_DEV_MAX
      /\ at' # "end" => call' = call
      /\ call' = NoCall <=> at' = "end"
  BY <1>1, <1>2, AfterFacts, ProceedKeeps
<1>4. TypeOK'
  <2>1. error' = error /\ fifo' = fifo /\ silent' \in BOOLEAN /\ stirred' = stirred
    BY DEF exec_cmd, Write, reader
  <2>2. /\ command' \in (Commands \ {"NO_CMD_CHANGE"}) \cup {"OFF"}
        /\ modem' \in {"idle", "sending", "receiving"}
    BY <1>2, DriverFacts DEF exec_cmd, Write, reader, IInv, TypeOK, Commands, Finishing, Lasting, Without
  <2> QED BY <1>1, <1>2, <1>3, <2>1, <2>2, AfterFacts DEF IInv, TypeOK
<1>5. Flow'
  BY <1>1, <1>2, <1>3, AfterFacts, DriverFacts DEF IInv, Flow, Reading, Finishing, Without, Lasting
<1>6. Unheard'
  BY <1>1, <1>2, <1>3 DEF exec_cmd, Write, IInv, Unheard, reader
<1>7. ASSUME wire = 8 PROVE Heard'
  <2>1. /\ command' = IF call.cmd = "NO_CMD_CHANGE" THEN command ELSE call.cmd
        /\ modem' = "idle" /\ fifo' = fifo /\ error' = error
    BY <1>1, <1>7 DEF exec_cmd, Write, IInv, Heard, AtExec, Rest, Exchanging
  <2>2. at' = IF call.cmd \in Finishing THEN "finish"
              ELSE IF call.cmd = "CALC_CRC" THEN "result"
              ELSE IF call.cmd = "TRANSCEIVE" THEN "fill" ELSE "end"
    BY <1>1, <1>2, <1>3, AfterFacts
  <2>3. call' = call \/ at' = "end"
    BY <1>3
  <2>4. call.cmd = "IDLE" \/ call.cmd \in Finishing \/ call.cmd \in Lasting
    BY <1>2, DriverFacts DEF Without, Finishing, Lasting
  <2>5. AtEnd'
    BY <2>1, <2>2, <2>4 DEF AtEnd, Rest, Finishing, Lasting
  <2>6. AtWait' /\ AtExec' /\ AtTake'
    BY <2>2 DEF AtWait, AtExec, AtTake
  <2>7. AtFill' /\ AtModem'
    BY <2>1, <2>2, <2>3 DEF AtFill, AtModem, Finishing
  <2>8. AtCrc'
    BY <1>1, <1>7, <2>1, <2>2, <2>3 DEF AtCrc, IInv, Heard, AtExec, Given, Reading, Finishing
  <2>9. AtFinish'
    <3>1. CASE call.cmd \in Exchanging
      BY <1>1, <1>2, <1>7, <2>1, <2>2, <2>3, <3>1, DriverFacts, CallFacts
      DEF AtFinish, IInv, Heard, AtExec, Given, Reading, Finishing, Exchanging
    <3>2. CASE call.cmd = "NO_CMD_CHANGE"
      BY <1>1, <1>7, <2>1, <2>2, <2>3, <3>2
      DEF AtFinish, IInv, Heard, AtExec, Reading, Exchanging, Rest
    <3>3. CASE call.cmd \notin Exchanging /\ call.cmd # "NO_CMD_CHANGE"
      BY <2>1, <2>2, <2>3, <3>3 DEF AtFinish, Reading, Exchanging, Finishing
    <3> QED BY <3>1, <3>2, <3>3
  <2> QED BY <2>5, <2>6, <2>7, <2>8, <2>9 DEF Heard
<1> QED BY <1>3, <1>4, <1>5, <1>6, <1>7, DriverFacts DEF IInv

\* wait_cmd reads the command: at rest, it is given up or already done.
LEMMA WaitKeeps ==
    ASSUME IInv, wait_cmd
    PROVE  IInv'
<1>1. at \in {"wait", "finish"} /\ silent' = silent /\ stirred' = stirred
  BY DEF wait_cmd
<1>2. PICK seen \in Seen :
         /\ IF seen \in Lasting THEN Write("IDLE") ELSE UNCHANGED reader
         /\ Proceed(IF seen \in Lasting \cup {"IDLE"} THEN After(call, at) ELSE Looping[at])
  BY DEF wait_cmd, Cancelled
<1> DEFINE op == IF seen \in Lasting \cup {"IDLE"} THEN After(call, at) ELSE Looping[at]
<1>3. Looping[at] = IF at = "wait" THEN "waiting" ELSE "finishing"
  BY <1>1 DEF Looping
<1>4. at # "end"
  BY <1>1
<1>5. op = IF seen \in Lasting \cup {"IDLE"}
           THEN IF at = "wait" THEN IF Reading(call) THEN "clear" ELSE "fill"
                ELSE IF Reading(call) THEN "take" ELSE "end"
           ELSE IF at = "wait" THEN "waiting" ELSE "finishing"
  BY <1>1, <1>3, <1>4, AfterFacts
<1> HIDE DEF op
<1>6. /\ at' = op /\ wire' = wire /\ slots' = slots
      /\ call' \in Calls \cup {NoCall} /\ slots' \in 0..RFID_DEV_MAX
      /\ at' # "end" => call' = call
      /\ call' = NoCall <=> at' = "end"
  <2>1. Proceed(op)
    BY <1>2 DEF op
  <2> QED BY <1>1, <1>4, <1>5, <2>1, ProceedKeeps
<1>7. /\ error' = error /\ fifo' = fifo
      /\ \/ command' = command /\ modem' = modem
         \/ seen \in Lasting /\ command' = "IDLE" /\ modem' = "idle"
  BY <1>2 DEF Write, reader
<1>8. TypeOK'
  BY <1>1, <1>5, <1>6, <1>7 DEF IInv, TypeOK, Commands
<1>9. Flow'
  BY <1>1, <1>4, <1>5, <1>6, DriverFacts DEF IInv, Flow, Reading, Finishing, Without, Lasting
<1>10. Unheard'
  BY <1>1, <1>6, <1>7 DEF IInv, Unheard
<1>11. ASSUME wire = 8 PROVE Heard'
  <2>1. seen = command
    BY <1>11 DEF Seen
  <2>2. /\ command' = IF command \in Lasting THEN "IDLE" ELSE command
        /\ modem' = modem \/ modem' = "idle"
    BY <1>2, <1>11, <2>1 DEF Write, reader
  <2>3. CASE at = "wait"
    BY <1>5, <1>6, <1>7, <1>11, <2>1, <2>2, <2>3
    DEF IInv, Flow, Heard, AtEnd, AtWait, AtExec, AtFill, AtCrc, AtFinish, AtModem, AtTake, Rest,
        Reading, Lasting
  <2>4. CASE at = "finish"
    BY <1>4, <1>5, <1>6, <1>7, <1>11, <2>1, <2>2, <2>4, DriverFacts
    DEF IInv, Flow, Heard, AtEnd, AtWait, AtExec, AtFill, AtCrc, AtFinish, AtModem, AtTake, Rest,
        Reading, Lasting, Finishing, Result, TypeOK, Commands
  <2> QED BY <1>1, <2>3, <2>4
<1> QED BY <1>6, <1>8, <1>9, <1>10, <1>11, DriverFacts DEF IInv

LEMMA PollKeeps ==
    ASSUME IInv, poll
    PROVE  IInv'
<1> DEFINE step == IF at = "waiting" THEN "wait" ELSE "finish"
           op == After(call, step)
<1>1. at \in {"waiting", "finishing"} /\ "IDLE" \in Seen /\ Proceed(op)
      /\ command' = command /\ modem' = modem /\ fifo' = fifo /\ error' = error
      /\ silent' = silent /\ stirred' = stirred
  BY DEF poll, Polling, reader
<1>2. at # "end"
  BY <1>1
<1>3. op = IF at = "waiting" THEN IF Reading(call) THEN "clear" ELSE "fill"
           ELSE IF Reading(call) THEN "take" ELSE "end"
  <2>1. CASE at = "waiting"
    BY <1>2, <2>1, AfterFacts
  <2>2. CASE at = "finishing"
    BY <1>2, <2>2, AfterFacts
  <2> QED BY <1>1, <2>1, <2>2
<1> HIDE DEF op
<1>4. /\ at' = op /\ wire' = wire /\ slots' = slots
      /\ call' \in Calls \cup {NoCall} /\ slots' \in 0..RFID_DEV_MAX
      /\ at' # "end" => call' = call
      /\ call' = NoCall <=> at' = "end"
  BY <1>1, <1>2, <1>3, ProceedKeeps
<1>5. TypeOK'
  BY <1>1, <1>3, <1>4 DEF IInv, TypeOK
<1>6. Flow'
  BY <1>1, <1>2, <1>3, <1>4, DriverFacts DEF IInv, Flow, Reading, Finishing, Without, Lasting
<1>7. Unheard'
  BY <1>1, <1>4 DEF IInv, Unheard
<1>8. ASSUME wire = 8 PROVE Heard'
  <2>1. at = "finishing" /\ command = "IDLE"
    BY <1>1, <1>8 DEF Seen, IInv, Heard, AtWait
  <2> QED BY <1>1, <1>3, <1>4, <1>8, <2>1
      DEF IInv, Flow, Heard, AtEnd, AtWait, AtExec, AtFill, AtCrc, AtFinish, AtModem, AtTake, Rest,
          Reading, Lasting, Finishing, Result
<1> QED BY <1>4, <1>5, <1>6, <1>7, <1>8, DriverFacts DEF IInv

LEMMA CheckKeeps ==
    ASSUME IInv, check_error
    PROVE  IInv'
<1>1. at = "check" /\ at # "end" /\ silent' = silent /\ stirred' = stirred
  BY DEF check_error
<1>2. After(call, at) = "take"
  BY <1>1, AfterFacts
<1>3. \/ error /\ Write("IDLE") /\ Proceed("end")
      \/ ~error /\ UNCHANGED reader /\ Proceed("take")
  BY <1>2 DEF check_error
<1>4. PICK op \in {"end", "take"} : Proceed(op)
  BY <1>3
<1>5. /\ at' = op /\ wire' = wire /\ slots' = slots
      /\ call' \in Calls \cup {NoCall} /\ slots' \in 0..RFID_DEV_MAX
      /\ at' # "end" => call' = call
      /\ call' = NoCall <=> at' = "end"
  BY <1>1, <1>4, ProceedKeeps
<1>6. /\ error' = error /\ fifo' = fifo
      /\ \/ command' = command /\ modem' = modem
         \/ command' = "IDLE" /\ modem' = "idle"
  BY <1>3 DEF Write, reader
<1>7. TypeOK'
  <2>1. error' \in BOOLEAN
    BY <1>6, Zenon DEF IInv, TypeOK
  <2> QED BY <1>1, <1>5, <1>6, <2>1 DEF IInv, TypeOK, Commands
<1>8. Flow'
  BY <1>1, <1>5 DEF IInv, Flow
<1>9. Unheard'
  BY <1>1, <1>5, <1>6 DEF IInv, Unheard
<1>10. ASSUME wire = 8 PROVE Heard'
  <2>1. call.cmd = "TRANSCEIVE" /\ command = "TRANSCEIVE" /\ modem = "idle"
        /\ (error \/ fifo = "answer")
    BY <1>1, <1>10 DEF IInv, Flow, TypeOK, Heard, AtModem
  <2>2. CASE error /\ Write("IDLE") /\ Proceed("end")
    BY <1>10, <2>2 DEF Write, Proceed, Heard, AtEnd, AtWait, AtExec, AtFill, AtCrc, AtFinish,
       AtModem, AtTake, Rest
  <2>3. CASE ~error /\ UNCHANGED reader /\ Proceed("take")
    BY <1>10, <2>1, <2>3 DEF Proceed, reader, Heard, AtEnd, AtWait, AtExec, AtFill, AtCrc,
       AtFinish, AtModem, AtTake, Result
  <2> QED BY <1>3, <2>2, <2>3
<1> QED BY <1>5, <1>7, <1>8, <1>9, <1>10, DriverFacts DEF IInv

\* The steps of the reader, which the driver does not see.
LEMMA FinishKeeps ==
    ASSUME IInv, Finish
    PROVE  IInv'
<1>1. at' = at /\ call' = call /\ slots' = slots /\ wire' = wire /\ silent' = silent
      /\ stirred' = stirred
  BY DEF Finish
<1>2. Flow'
  BY <1>1 DEF IInv, Flow, Reading
<1>3. TypeOK'
  BY <1>1 DEF Finish, IInv, TypeOK, Commands
<1>4. (wire = 8 => Heard) /\ (wire = 1 => stirred)
  BY DEF Finish, Ends, Finishing, IInv, TypeOK, Unheard
<1>5. ASSUME wire = 8 PROVE Heard'
  BY <1>1, <1>4, <1>5 DEF Finish, Ends, IInv, TypeOK, Flow, Heard, AtEnd, AtWait, AtExec, AtFill, AtCrc,
     AtFinish, AtModem, AtTake, Rest, Waiting, Given, Result, Exchanging, Reading, WithCard,
     Finishing, Lasting
<1>6. Unheard'
  BY <1>1, <1>4 DEF Unheard
<1> QED BY <1>1, <1>2, <1>3, <1>5, <1>6 DEF IInv

LEMMA CrcDoneKeeps ==
    ASSUME IInv, Crc
    PROVE  IInv'
<1>1. at' = at /\ call' = call /\ slots' = slots /\ wire' = wire /\ silent' = silent
      /\ stirred' = stirred
  BY DEF Crc
<1>2. Flow'
  BY <1>1 DEF IInv, Flow, Reading
<1>3. TypeOK'
  BY <1>1 DEF Crc, IInv, TypeOK, Commands
<1>4. (wire = 8 => Heard) /\ (wire = 1 => stirred)
  BY DEF Crc, Ends, Finishing, IInv, TypeOK, Unheard
<1>5. ASSUME wire = 8 PROVE Heard'
  BY <1>1, <1>4, <1>5 DEF Crc, Ends, IInv, TypeOK, Flow, Heard, AtEnd, AtWait, AtExec, AtFill, AtCrc,
     AtFinish, AtModem, AtTake, Rest, Waiting, Given, Result, Exchanging, Reading, WithCard,
     Finishing, Lasting
<1>6. Unheard'
  BY <1>1, <1>4 DEF Unheard
<1> QED BY <1>1, <1>2, <1>3, <1>5, <1>6 DEF IInv

LEMMA TransmittedKeeps ==
    ASSUME IInv, Transmit
    PROVE  IInv'
<1>1. at' = at /\ call' = call /\ slots' = slots /\ wire' = wire /\ silent' = silent
      /\ stirred' = stirred
  BY DEF Transmit
<1>2. Flow'
  BY <1>1 DEF IInv, Flow, Reading
<1>3. TypeOK'
  BY <1>1 DEF Transmit, IInv, TypeOK, Commands
<1>4. (wire = 8 => Heard) /\ (wire = 1 => stirred)
  BY DEF Transmit, Ends, Finishing, IInv, TypeOK, Unheard
<1>5. ASSUME wire = 8 PROVE Heard'
  BY <1>1, <1>4, <1>5 DEF Transmit, Ends, IInv, TypeOK, Flow, Heard, AtEnd, AtWait, AtExec, AtFill, AtCrc,
     AtFinish, AtModem, AtTake, Rest, Waiting, Given, Result, Exchanging, Reading, WithCard,
     Finishing, Lasting
<1>6. Unheard'
  BY <1>1, <1>4 DEF Unheard
<1> QED BY <1>1, <1>2, <1>3, <1>5, <1>6 DEF IInv

LEMMA AnswerKeeps ==
    ASSUME IInv, Answer
    PROVE  IInv'
<1>1. at' = at /\ call' = call /\ slots' = slots /\ wire' = wire /\ silent' = silent
      /\ stirred' = stirred
  BY DEF Answer
<1>2. Flow'
  BY <1>1 DEF IInv, Flow, Reading
<1>3. TypeOK'
  <2>1. error' \in BOOLEAN
    BY Zenon DEF Answer
  <2> QED BY <1>1, <2>1 DEF Answer, IInv, TypeOK
<1>4. (wire = 8 => Heard) /\ (wire = 1 => stirred)
  BY DEF Answer, Ends, Finishing, IInv, TypeOK, Unheard
<1>5. ASSUME wire = 8 PROVE Heard'
  BY <1>1, <1>4, <1>5 DEF Answer, Ends, IInv, TypeOK, Flow, Heard, AtEnd, AtWait, AtExec, AtFill, AtCrc,
     AtFinish, AtModem, AtTake, Rest, Waiting, Given, Result, Exchanging, Reading, WithCard,
     Finishing, Lasting
<1>6. Unheard'
  BY <1>1, <1>4 DEF Unheard
<1> QED BY <1>1, <1>2, <1>3, <1>5, <1>6 DEF IInv

LEMMA GiveUpKeeps ==
    ASSUME IInv, GiveUp
    PROVE  IInv'
<1>1. at' = at /\ call' = call /\ slots' = slots /\ wire' = wire /\ silent' = silent
      /\ stirred' = stirred
  BY DEF GiveUp
<1>2. Flow'
  BY <1>1 DEF IInv, Flow, Reading
<1>3. TypeOK'
  <2>1. error' \in BOOLEAN
    BY Zenon DEF GiveUp
  <2> QED BY <1>1, <2>1 DEF GiveUp, IInv, TypeOK
<1>4. (wire = 8 => Heard) /\ (wire = 1 => stirred)
  BY DEF GiveUp, Ends, Finishing, IInv, TypeOK, Unheard
<1>5. ASSUME wire = 8 PROVE Heard'
  BY <1>1, <1>4, <1>5 DEF GiveUp, Ends, IInv, TypeOK, Flow, Heard, AtEnd, AtWait, AtExec, AtFill, AtCrc,
     AtFinish, AtModem, AtTake, Rest, Waiting, Given, Result, Exchanging, Reading, WithCard,
     Finishing, Lasting
<1>6. Unheard'
  BY <1>1, <1>4 DEF Unheard
<1> QED BY <1>1, <1>2, <1>3, <1>5, <1>6 DEF IInv

LEMMA RestartKeeps ==
    ASSUME IInv, Restart
    PROVE  IInv'
<1>1. /\ at \in {"waiting", "finishing"} /\ (wire = 8 => command # "IDLE" /\ ~Ends)
      /\ call' = NoCall /\ at' = "end" /\ slots' = 0
      /\ wire' = wire /\ command' = command /\ modem' = modem /\ fifo' = fifo
      /\ error' = error /\ silent' = silent /\ stirred' = stirred
  BY DEF Restart, Polling, reader
<1>2. slots' \in 0..RFID_DEV_MAX
  BY <1>1, Rc522Constants
<1>3. TypeOK'
  BY <1>1, <1>2 DEF IInv, TypeOK
<1>4. Flow' /\ Unheard'
  BY <1>1 DEF IInv, Flow, Unheard
<1>5. ASSUME wire = 8 PROVE Heard'
  <2>1. command \in WithCard /\ silent /\ modem = "idle"
    BY <1>1, <1>5 DEF IInv, Heard, AtWait, AtFinish, Ends
  <2> QED BY <1>1, <2>1 DEF Heard, AtEnd, AtWait, AtExec, AtFill, AtCrc, AtFinish, AtModem, AtTake,
         Waiting
<1> QED BY <1>1, <1>3, <1>4, <1>5 DEF IInv

LEMMA UntakenKeeps ==
    ASSUME IInv, rfid_request_untaken
    PROVE  IInv'
<1>1. /\ at = "end" /\ call' = call /\ at' = at /\ slots' = 0
      /\ wire' = wire /\ command' = command /\ modem' = modem /\ fifo' = fifo
      /\ error' = error /\ silent' = silent /\ stirred' = stirred
  BY DEF rfid_request_untaken, reader, Busy, IInv, Flow
<1>2. slots' \in 0..RFID_DEV_MAX
  BY <1>1, Rc522Constants
<1>3. TypeOK'
  BY <1>1, <1>2 DEF IInv, TypeOK
<1>4. Flow' /\ Unheard'
  BY <1>1 DEF IInv, Flow, Unheard, Reading
<1>5. ASSUME wire = 8 PROVE Heard'
  <2>1. Rest \/ Waiting
    BY <1>1, <1>5 DEF IInv, Heard, AtEnd
  <2>2. modem = "idle"
    BY <2>1 DEF Rest, Waiting
  <2> QED BY <1>1, <2>1, <2>2 DEF Heard, AtEnd, AtWait, AtExec, AtFill, AtCrc, AtFinish,
         AtModem, AtTake, Rest, Waiting
<1> QED BY <1>1, <1>3, <1>4, <1>5 DEF IInv

LEMMA StutterKeeps ==
    ASSUME IInv, UNCHANGED vars
    PROVE  IInv'
<1>1. /\ wire' = wire /\ slots' = slots /\ call' = call /\ at' = at /\ command' = command
      /\ modem' = modem /\ fifo' = fifo /\ error' = error /\ silent' = silent
      /\ stirred' = stirred
  BY DEF vars
<1>2. TypeOK'
  BY <1>1 DEF IInv, TypeOK
<1>3. Flow' /\ Unheard'
  BY <1>1 DEF IInv, Flow, Unheard, Reading
<1>4. Heard => Heard'
  BY <1>1 DEF Heard, AtEnd, AtWait, AtExec, AtFill, AtCrc, AtFinish, AtModem, AtTake, Rest,
     Waiting, Given, Result, Reading
<1> QED BY <1>1, <1>2, <1>3, <1>4 DEF IInv

LEMMA NextIInv == IInv /\ [Next]_vars => IInv'
<1> SUFFICES ASSUME IInv, [Next]_vars PROVE IInv'
  OBVIOUS
<1>1. CASE rfid_init \/ rc522_sendcmd
  BY <1>1, SlotsKeep
<1>2. CASE Driver
  BY <1>2, ExecKeeps, WaitKeeps, PollKeeps, CrcKeeps, TransmitKeeps, ReceiveKeeps, ClearKeeps,
     FillKeeps, StartKeeps, CheckKeeps, TakeKeeps DEF Driver
<1>3. CASE Reader \/ GiveUp
  BY <1>3, FinishKeeps, CrcDoneKeeps, TransmittedKeeps, AnswerKeeps, GiveUpKeeps DEF Reader
<1>4. CASE Restart
  BY <1>4, RestartKeeps
<1>5. CASE rfid_request_untaken
  BY <1>5, UntakenKeeps
<1>6. CASE UNCHANGED vars
  BY <1>6, StutterKeeps
<1> QED BY <1>1, <1>2, <1>3, <1>4, <1>5, <1>6 DEF Next

\* What is in the invariant in every reachable state.
THEOREM Invariance == Spec => []IInv
<1> QED BY InitIInv, NextIInv, PTL DEF Spec

-----------------------------------------------------------------------------
(* What it implies.                                                        *)

\* The types of the driver's steps and of the reader's registers.
THEOREM TypeCorrect == Spec => []TypeOK
<1>1. IInv => TypeOK
  BY DEF IInv
<1> QED BY <1>1, Invariance, PTL

\* A call never finds a command of an earlier one at work (wait_cmd), whatever
\* the width of the accesses, until an argument of two bytes or more has been
\* sent with accesses of one bit (to_fifo): after that anything may be at work.
THEOREM RestsBetween == Spec => []Rested
<1>1. IInv => Rested
  BY DEF IInv, TypeOK, Flow, Unheard, Heard, AtEnd, Rest, Rested, Busy
<1> QED BY <1>1, Invariance, PTL

\* A step in which a byte of the FIFO is used is one of the reader's.
LEMMA UserIsReader ==
    ASSUME IInv, Next, Uses
    PROVE  Finish \/ Crc \/ Transmit
<1>1. at' = at /\ fifo # "empty" /\ fifo' = "empty"
  BY DEF Uses
<1>2. ~(rfid_init \/ rc522_sendcmd)
  <2>1. \A c : Begin(c) => fifo' = "left"
    BY <1>1 DEF Begin
  <2> QED BY <1>1, <2>1 DEF rfid_init, rc522_sendcmd
<1>3. ~(clear_fifo \/ from_fifo)
  <2>1. at = "clear" => After(call, at) = "exec"
    BY AfterFacts
  <2>2. at = "take" => After(call, at) = "end"
    BY AfterFacts
  <2> QED BY <1>1, <2>1, <2>2 DEF clear_fifo, from_fifo, Proceed
<1>4. ~to_fifo
  <2>1. at = "fill" => After(call, at) \in {"start", "exec"}
    BY AfterFacts
  <2>2. at = "refill" => After(call, at) = "result"
    BY AfterFacts
  <2> QED BY <1>1, <2>1, <2>2 DEF to_fifo, Proceed
<1>5. ~(exec_cmd \/ wait_cmd \/ check_error)
  BY <1>1 DEF exec_cmd, wait_cmd, check_error, Write, reader
<1>6. ~(poll \/ wait_crc_done \/ wait_transmit_done \/ wait_receive_done \/ start_send)
  BY <1>1 DEF poll, wait_crc_done, wait_transmit_done, wait_receive_done, start_send, reader
<1>7. ~(Answer \/ GiveUp \/ Restart \/ rfid_request_untaken)
  BY <1>1 DEF Answer, GiveUp, Restart, rfid_request_untaken, reader
<1> QED BY <1>2, <1>3, <1>4, <1>5, <1>6, <1>7 DEF Next, Driver, Reader

\* No call uses bytes an earlier one left in the FIFO, or clocks them out in
\* place of its answer, unless to_fifo refused its own (lines 114 to 163), or,
\* with accesses of one bit, bytes went astray.
THEOREM BytesOwned == Spec => OwnBytes
<1> DEFINE P == /\ Uses /\ ~stirred => fifo = "argument" \/ call.arg = "long"
                /\ Takes => fifo = IF call.cmd = "TRANSMIT" THEN "empty" ELSE "answer"
<1>1. IInv /\ Next => P
  <2> SUFFICES ASSUME IInv, Next PROVE P
    OBVIOUS
  <2>1. ASSUME Uses, ~stirred PROVE fifo = "argument" \/ call.arg = "long"
    <3>1. Finish \/ Crc \/ Transmit
      BY <2>1, UserIsReader
    <3>2. wire = 8 /\ Heard
      BY <2>1, <3>1 DEF Finish, Crc, Transmit, Ends, Finishing, IInv, TypeOK, Unheard
    <3>3. CASE Finish
      <4>1. fifo # "empty" /\ fifo' = "empty" /\ command # "SOFT_RESET" /\ Ends
        BY <2>1, <3>3 DEF Uses, Finish
      <4>2. command \in {"MEM", "TRANSMIT", "MFAUTHENT", "NO_CMD_CHANGE"}
        BY <3>3, <4>1 DEF Finish, Ends, Finishing
      <4>3. command \in WithCard => ~silent
        BY <4>1 DEF Ends
      <4>4. at \in {"finish", "finishing"}
        BY <3>2, <4>2, <4>3 DEF IInv, TypeOK, Flow, Heard, AtEnd, AtWait, AtExec, AtFill, AtCrc,
           AtModem, AtTake, Rest, Waiting, Lasting, WithCard
      <4>5. command = call.cmd
        BY <3>2, <4>2, <4>4 DEF Heard, AtFinish, Lasting
      <4>6. ~Reading(call) /\ call.cmd \in {"MEM", "MFAUTHENT"}
        BY <3>2, <4>1, <4>2, <4>4, <4>5 DEF IInv, TypeOK, Heard, AtFinish, Lasting, Reading
      <4> QED BY <3>2, <4>1, <4>4, <4>5, <4>6 DEF Heard, AtFinish, Lasting
    <3>4. CASE Crc
      <4>1. command = "CALC_CRC" /\ fifo # "empty"
        BY <3>4 DEF Crc
      <4> QED BY <3>2, <4>1 DEF IInv, TypeOK, Heard, AtEnd, AtWait, AtExec, AtFill, AtCrc,
             AtFinish, AtModem, AtTake, Rest, Waiting, WithCard, Given, Exchanging
    <3>5. CASE Transmit
      BY <3>2, <3>5 DEF Transmit, Heard, AtModem, Given
    <3> QED BY <3>1, <3>3, <3>4, <3>5
  <2>2. ASSUME Takes PROVE fifo = IF call.cmd = "TRANSMIT" THEN "empty" ELSE "answer"
    BY <2>2 DEF Takes, IInv, Heard, AtTake, Result
  <2> QED BY <2>1, <2>2
<1>2. IInv /\ [Next]_vars => [P]_vars
  BY <1>1
<1>3. Spec => [][P]_vars
  BY <1>2, Invariance, PTL DEF Spec
<1> QED BY <1>3 DEF OwnBytes
=============================================================================
