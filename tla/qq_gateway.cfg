\* Two executions of connect, one send, two sockets; tokens that live one Tick
\* longer than the margin, or one Tick only, and answers that do not say which;
\* requests of at most one Tick.
CONSTANTS
  NoSocket = NoSocket
  Connects = {x1, x2}
  Sends = {y1}
  Calls = {x1, x2, y1}
  Sockets = {s1, s2}
  Ttls = {1, 3}
  DefaultTtl = 3
  Margin = 2
  Timeout = 1
SPECIFICATION GatewayFairSpec
INVARIANTS
  GatewayTypeOK
  TokenIsAlive
  NeverAbandoned
  HelloIsAnswered
PROPERTIES
  QuietAfterDestroy
  ComesBack
