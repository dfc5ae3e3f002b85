----------------------------- MODULE MCUnoLobby -----------------------------
(***************************************************************************)
(* Model-checking instance of UnoLobby.  LiveView leaves out what no step  *)
(* reads before it is written again: the argument of a request already     *)
(* taken and the locals of a thread that are past their last use.  It also *)
(* leaves out rowner, which no step reads but to set rowner itself and no  *)
(* property but TypeOK names; that it is a seat is a theorem.              *)
(***************************************************************************)
EXTENDS UnoLobby

HandlerView(c) ==
  CASE hpc[c] = "idle" /\ handler_working[c] -> <<hpc[c], handler_arg[c]>>
    [] hpc[c] \in {"create", "join", "random", "joinrandom", "open", "openrandom"}
         -> <<hpc[c], hroom[c], hfit[c]>>
    [] OTHER -> <<hpc[c]>>

RoomView(r) ==
  CASE rpc[r] \in {"idle", "exit", "over"} -> <<rpc[r]>>
    [] rpc[r] \in {"game", "gcount", "gleave"}
         -> <<rpc[r], rused[r], rload[r], ralive[r], rgame[r], stale[r]>>
    [] rpc[r] \in {"count", "leave"}
         -> <<rpc[r], rused[r], rload[r], rseat[r], stale[r]>>
    [] OTHER -> <<rpc[r], rused[r], rseat[r], rnum[r], stale[r]>>

LiveView ==
  <<state, global_player_num, mainVars, handler_working,
    [c \in Conns |-> HandlerView(c)], roomData, room_working,
    [r \in Rooms |-> RoomView(r)], misreads, raced>>
=============================================================================
