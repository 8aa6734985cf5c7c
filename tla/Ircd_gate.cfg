CONSTANTS
  ann = ann
  oracle = oracle
  longname = longname
  cutname = cutname
  NoNick = NoNick
  MaxConns = 3
  MaxClients = 2
  MaxChannels = 1
  Nicks = {ann}
  ChannelNames = {oracle, longname}
  Defaults <- MCDefaults
  Stored <- MCStored
SPECIFICATION Spec
CHECK_DEADLOCK FALSE
INVARIANT MembersAreRegistered
