SPECIFICATION Spec
CONSTANTS
    Ip <- MCIp
    Mac <- MCMac
    Peers <- MCPeers
    Payloads <- MCPayloads
    Ports <- MCPorts
    Numbers <- MCNumbers
    Paddings <- MCPaddings
INVARIANTS ChecksumsVerify ParsedAsBuilt EchoReturnsPing
