-------------------------- MODULE MCWebSocketBridge --------------------------
(* The bridge between two browsers and the owner task; see the README.      *)
EXTENDS WebSocketBridge
MCOffered ==
  <<[op : {"archive"}, arg : {"import", "chunk", "commit"}],
    [op : {"archive"}, arg : {"import"}] \cup [op : {"command"}, arg : {"presets"}]
      \cup [op : {"get", "write"}, arg : {"maintenance"}]>>
=============================================================================
