--------------------------- MODULE MCPipedStream ----------------------------
(* Kinds of handlers that TLC runs PipedStream on.                         *)
EXTENDS PipedStream

(* Every kind, with each failure it survives: HttpHeaders survives none of *)
(* those that Http does not have.                                          *)
Sound == {Intact(Gunzip), Intact(Base64Decode), Base64Encode, WriteS3,
          WriteElasticsearch, AesDecrypt, Intact(HttpData), Http,
          Started(Fork), Tcp, Attentive(Websocket)}

(* An error leaves the pipe's reader open. *)
Corrupt == {Gunzip, Base64Decode}
=============================================================================
