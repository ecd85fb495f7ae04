SPECIFICATION FairSpec
CONSTANTS
  Programs <- PendingPrograms
  Regs = {1, 2}
  Addrs = {1, 2, 3}
  ROB_Size = 6
  RS_Size = 5
  LSQ_Size = 2
  decode_buffer_size = 2
  decode_width = 2
  issue_width = 2
  commit_width = 2
  ld_str_width = 1
  num_ins_types = 3
  num_exec_units = 3
  ins_latency <- TwoCycles
  decode_latency = 2
  branch_penalty = 2
PROPERTIES
  ProgramCompletes
