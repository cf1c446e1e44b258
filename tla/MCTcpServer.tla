---------------------------- MODULE MCTcpServer -----------------------------
(* Command lines with servers that TLC runs TcpServer on.                  *)
EXTENDS TcpServer

TcpEcho    == <<ServerSide, Upper>>
SocketEcho == <<WebsocketSide, Upper>>
Offload    == <<TlsSide, HttpSide>>
NullEcho   == <<ServerSide, Null>>
=============================================================================
