---------------------------- MODULE MCTcpClient ----------------------------
(* TcpClient for TLC: the retry delays, from kInitRetryDelayMs to kMaxRetryDelayMs. *)
EXTENDS TcpClient

RetryDelays == <<500, 1000, 2000, 4000, 8000, 16000, 30000>>
=============================================================================
