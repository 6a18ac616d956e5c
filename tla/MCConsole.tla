------------------------------ MODULE MCConsole ------------------------------
(***************************************************************************)
(* The debug port of WbuConsole for TLC, and the FIFO of WbuFifo that its  *)
(* two queues stand for: a behaviour is one of the one or of the other.    *)
(***************************************************************************)
EXTENDS WbuFifo, WbuConsole

VARIABLE part      \* which of the two moves

portVars ==
    <<fifos, watchdog, host, i_wb_stall, i_wb_ack, i_wb_err, wb_state, w_bus_busy,
      o_wb_cyc, o_wb_stb, o_wb_we, o_wb_addr, o_wb_data, r_inc, r_new_addr,
      r_acks_needed, zero_acks, r_len, last_ack, last_read_request,
      single_read_request, exec_stb, exec_word, atSlave>>

\* Bound: the host writes only before it has been told an address, and before the
\* watchdog has fired.
WritesFirst == in_stb' /\ in_word'.op = "write" => told = NoAddress /\ ~everReset

\* One of the states a FIFO starts in.
AtRest ==
    LET w == CHOOSE w \in Word : TRUE
    IN  /\ ~i_reset /\ ~i_wr /\ ~i_rd
        /\ i_data = w /\ o_data = w /\ fifo = [a \in Addresses |-> w]

MCInit == /\ FifoInit /\ Init
          /\ part \in {"port", "fifo"} /\ (part = "port" => AtRest)
Port   == part = "port" /\ Next /\ WritesFirst /\ UNCHANGED registers
Fifo   == part = "fifo" /\ FifoClock /\ UNCHANGED portVars

MCSpec == MCInit /\ [][(Port \/ Fifo) /\ UNCHANGED part]_<<portVars, registers, part>>
=============================================================================
