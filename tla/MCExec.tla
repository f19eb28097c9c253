-------------------------------- MODULE MCExec --------------------------------
EXTENDS Exec

CONSTANT e1

AnyRequest == [form: {"sync", "stream", "pty"}, leaves: {"nothing", "piped", "detached"}]
=============================================================================
