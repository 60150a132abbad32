------------------------------- MODULE Sysent -------------------------------
(* The system call tables of the SVR4-family personalities, as the           *)
(* abi/*/sysent.c files declare them, and the prototypes of the handlers     *)
(* they name, as include/abi/*/sysent.h and the Linux headers declare them.   *)
(*                                                                           *)
(* A table is the sequence of its entries: entry number n of the C array is  *)
(* element n + 1.  An entry keeps the handler and se_nargs; the strings that *)
(* only the trace prints are left out.  An entry without a handler is U      *)
(* whatever its se_nargs says, for lcall7_dispatch() overrides the count.    *)
EXTENDS Integers, Sequences

CONSTANT CONFIG_ABI_XTI        \* the build has the STREAMS transport interface

-----------------------------------------------------------------------------
(* The values of se_nargs with a meaning of their own.                       *)
Spl == 101
Fast == 102
Unimpl == 103

Entry(h, n) == [se_syscall |-> h, se_nargs |-> n]
C(n, h) == Entry(h, n)
S(h) == Entry(h, Spl)
F(h) == Entry(h, Fast)
U == Entry("0", Unimpl)
Us(k) == [i \in 1..k |-> U]

-----------------------------------------------------------------------------
cxenix_table ==
    << U, C(3, "xnx_locking"), C(2, "xnx_creatsem"), C(1, "xnx_opensem"),
       C(1, "xnx_sigsem"), C(1, "xnx_waitsem"), C(1, "xnx_nbwaitsem"), C(1, "xnx_rdchk"),
       U, U, C(2, "sys_ftruncate"), C(1, "xnx_ftime"), C(1, "xnx_nap"), C(4, "xnx_sdget"),
       C(1, "xnx_sdfree"), C(2, "xnx_sdenter"), C(1, "xnx_sdleave"), C(1, "xnx_sdgetv"),
       C(2, "xnx_sdwaitv") >> \o Us(13) \o
    << C(3, "xnx_proctl"), C(2, "xnx_execseg"), C(1, "xnx_unexecseg"), U,
       C(5, "sys_select"), C(2, "xnx_eaccess"), C(5, "xnx_paccess"), C(3, "xnx_sigaction"),
       C(3, "abi_sigprocmask"), C(1, "xnx_sigpending"), S("abi_sigsuspend"),
       C(2, "sys_getgroups16"), C(2, "sys_setgroups16"), C(1, "ibcs_sysconf"),
       C(2, "xnx_pathconf"), C(2, "xnx_fpathconf"), C(2, "sys_rename"), U,
       C(1, "xnx_utsname") >> \o Us(4) \o
    << C(2, "sys_getitimer"), C(3, "sys_setitimer") >>

ibcs_syscall_table_low ==
    << F("lcall7_syscall"), C(1, "sys_exit"), S("abi_fork"), C(3, "abi_read"),
       C(3, "sys_write"), C(3, "svr4_open"), C(1, "sys_close"), S("abi_wait"),
       C(2, "sys_creat"), C(2, "sys_link"), C(1, "sys_unlink"), S("abi_exec"),
       C(1, "sys_chdir"), C(0, "abi_time"), C(3, "svr4_mknod"), C(2, "sys_chmod"),
       C(3, "sys_chown"), C(1, "abi_brk"), C(2, "svr4_stat"), C(3, "sys_lseek"),
       S("abi_getpid"), U, C(1, "sys_umount"), C(1, "sys_setuid"), S("abi_getuid"),
       C(1, "sys_stime"), U, C(1, "sys_alarm"), C(2, "svr4_fstat"), C(0, "sys_pause"),
       C(2, "sys_utime"), U, U, C(2, "sys_access"), C(1, "sys_nice"), C(4, "svr4_statfs"),
       C(0, "sys_sync"), C(2, "abi_kill"), C(4, "svr4_fstatfs"), S("abi_procids"), U,
       C(1, "sys_dup"), S("abi_pipe"), C(1, "sys_times"), U, U, C(1, "sys_setgid"),
       S("abi_getgid"), F("abi_sigfunc"), S("svr4_msgsys"), C(3, "svr4_sysi86"),
       C(1, "sys_acct"), F("svr4_shmsys"), S("svr4_semsys"), S("svr4_ioctl"), U, U,
       C(1, "v7_utsname"), C(1, "sys_fsync"), S("abi_exec"), C(1, "sys_umask"),
       C(1, "sys_chroot"), C(3, "svr4_fcntl"), C(2, "svr4_ulimit") >> \o Us(15) \o
    << C(1, "sys_rmdir"), C(2, "abi_mkdir"), C(3, "svr4_getdents"), U, U,
       C(3, "svr4_sysfs"), S("svr4_getmsg"), S("svr4_putmsg"), C(3, "sys_poll"),
       C(2, "svr4_lstat"), C(2, "sys_symlink"), C(3, "sys_readlink"),
       C(2, "sys_setgroups"), C(2, "sys_getgroups"), C(2, "sys_fchmod"),
       C(3, "sys_fchown"), C(3, "abi_sigprocmask"), S("abi_sigsuspend"), U,
       C(3, "abi_sigaction"), C(2, "svr4_sigpending"), S("svr4_context"), U, U,
       C(2, "svr4_statvfs"), C(2, "svr4_fstatvfs") >> \o Us(4) \o
    << S("svr4_hrtsys"), U, U, U, C(2, "svr4_pathconf"), U, C(6, "svr4_mmap"),
       C(3, "sys_mprotect"), C(2, "sys_munmap"), C(2, "svr4_fpathconf"), S("abi_fork"),
       C(1, "sys_fchdir"), C(3, "sys_readv"), C(3, "sys_writev"), C(3, "svr4_xstat"),
       C(3, "svr4_lxstat"), C(3, "svr4_fxstat"), C(4, "svr4_xmknod"), U,
       C(2, "svr4_getrlimit"), C(2, "svr4_setrlimit"), U, U >>

ibcs_syscall_table_high ==
    (IF CONFIG_ABI_XTI THEN << C(5, "svr4_getpmsg"), C(5, "svr4_putpmsg") >> ELSE Us(2)) \o
    << C(2, "sys_rename"), C(1, "abi_utsname"), C(1, "svr4_setegid"),
       C(1, "svr4_sysconfig"), U, C(3, "svr4_sysinfo"), C(1, "socksys_syscall"),
       C(1, "svr4_seteuid") >> \o Us(27) \o
    << C(3, "sys_setitimer"), C(2, "sys_getitimer"), C(2, "sys_gettimeofday"),
       C(2, "sys_settimeofday") >> \o Us(18) \o
    << C(2, "sys_truncate"), C(2, "sys_ftruncate") >> \o Us(23)

sysisc_table ==
    << U, C(1, "isc_setostype"), C(2, "sys_rename"), C(3, "abi_sigaction"),
       C(3, "abi_sigprocmask"), U, C(2, "sys_getgroups16"), C(2, "sys_setgroups16"), U, U,
       C(1, "ibcs_sysconf"), C(3, "sys_waitpid"), C(0, "sys_setsid"), C(2, "sys_setpgid"),
       U, U, U, S("abi_sigsuspend"), C(2, "sys_symlink"), C(3, "sys_readlink"), U >>

isc_syscall_table_low ==
    << F("lcall7_syscall"), C(1, "sys_exit"), S("abi_fork"), C(3, "abi_read"),
       C(3, "sys_write"), C(3, "svr4_open"), C(1, "sys_close"), S("abi_wait"),
       C(2, "sys_creat"), C(2, "sys_link"), C(1, "sys_unlink"), S("abi_exec"),
       C(1, "sys_chdir"), C(0, "abi_time"), C(3, "svr4_mknod"), C(2, "sys_chmod"),
       C(3, "sys_chown"), C(1, "abi_brk"), C(2, "svr4_stat"), C(3, "sys_lseek"),
       S("abi_getpid"), U, C(1, "sys_umount"), C(1, "sys_setuid"), S("abi_getuid"),
       C(1, "sys_stime"), U, C(1, "sys_alarm"), C(2, "svr4_fstat"), C(0, "sys_pause"),
       C(2, "sys_utime"), U, U, C(2, "sys_access"), C(1, "sys_nice"), C(4, "svr4_statfs"),
       C(0, "sys_sync"), C(2, "abi_kill"), C(4, "svr4_fstatfs"), S("abi_procids"), U,
       C(1, "sys_dup"), S("abi_pipe"), C(1, "sys_times"), U, U, C(1, "sys_setgid"),
       S("abi_getgid"), F("abi_sigfunc"), S("svr4_msgsys"), C(3, "svr4_sysi86"),
       C(1, "sys_acct"), F("svr4_shmsys"), S("svr4_semsys"), S("svr4_ioctl"), U, U,
       C(1, "v7_utsname"), C(1, "sys_fsync"), S("abi_exec"), C(1, "sys_umask"),
       C(1, "sys_chroot"), C(3, "svr4_fcntl"), C(2, "svr4_ulimit") >> \o Us(15) \o
    << C(1, "sys_rmdir"), C(2, "abi_mkdir"), C(3, "svr4_getdents"), U, U,
       C(3, "svr4_sysfs"), S("svr4_getmsg"), S("svr4_putmsg"), C(3, "sys_poll"),
       C(2, "svr4_lstat"), C(2, "sys_symlink"), C(3, "sys_readlink"),
       C(2, "sys_setgroups"), C(2, "sys_getgroups"), C(2, "sys_fchmod"),
       C(3, "sys_fchown"), C(3, "abi_sigprocmask"), S("abi_sigsuspend"), U,
       C(3, "abi_sigaction"), C(2, "svr4_sigpending"), S("svr4_context"), U, U,
       C(2, "svr4_statvfs"), C(2, "svr4_fstatvfs"), F("isc_sysisc"), U, U, U,
       S("svr4_hrtsys"), U, U, U, C(2, "svr4_pathconf"), U, C(6, "svr4_mmap"),
       C(3, "sys_mprotect"), C(2, "sys_munmap"), C(2, "svr4_fpathconf"), S("abi_fork"),
       C(1, "sys_fchdir"), C(3, "sys_readv"), C(3, "sys_writev"), C(3, "svr4_xstat"),
       C(3, "svr4_lxstat"), C(3, "svr4_fxstat"), C(4, "svr4_xmknod"), U,
       C(2, "svr4_getrlimit"), C(2, "svr4_setrlimit"), U, U >>

isc_syscall_table_high ==
    (IF CONFIG_ABI_XTI THEN << C(5, "svr4_getpmsg"), C(5, "svr4_putpmsg") >> ELSE Us(2)) \o
    << C(2, "sys_rename"), C(1, "abi_utsname"), C(1, "svr4_setegid"),
       C(1, "svr4_sysconfig"), U, C(3, "svr4_sysinfo"), C(1, "socksys_syscall"),
       C(1, "svr4_seteuid") >> \o Us(27) \o
    << C(3, "sys_setitimer"), C(2, "sys_getitimer"), C(2, "sys_gettimeofday"),
       C(2, "sys_settimeofday") >> \o Us(18) \o
    << C(2, "sys_truncate"), C(2, "sys_ftruncate") >> \o Us(23)

sco_syscall_table_low ==
    << F("lcall7_syscall"), C(1, "sys_exit"), S("abi_fork"), C(3, "abi_read"),
       C(3, "sys_write"), C(3, "svr4_open"), C(1, "sys_close"), S("abi_wait"),
       C(2, "sys_creat"), C(2, "sys_link"), C(1, "sys_unlink"), S("abi_exec"),
       C(1, "sys_chdir"), C(0, "abi_time"), C(3, "svr4_mknod"), C(2, "sys_chmod"),
       C(3, "sys_chown"), C(1, "abi_brk"), C(2, "svr4_stat"), C(3, "sco_lseek"),
       S("abi_getpid"), U, C(1, "sys_umount"), C(1, "sys_setuid"), S("abi_getuid"),
       C(1, "sys_stime"), C(4, "sco_ptrace"), C(1, "sys_alarm"), C(2, "svr4_fstat"),
       C(0, "sys_pause"), C(2, "sys_utime"), U, U, C(2, "sys_access"), C(1, "sys_nice"),
       C(4, "svr4_statfs"), C(0, "sys_sync"), C(2, "abi_kill"), C(4, "svr4_fstatfs"),
       S("abi_procids"), F("cxenix"), C(1, "sys_dup"), S("abi_pipe"), C(1, "sys_times"), U,
       U, C(1, "sys_setgid"), S("abi_getgid"), F("abi_sigfunc"), S("svr4_msgsys"),
       C(3, "sco_sysi86"), C(1, "sys_acct"), F("svr4_shmsys"), S("svr4_semsys"),
       S("sco_ioctl"), U, U, C(1, "v7_utsname"), C(1, "sys_fsync"), S("abi_exec"),
       C(1, "sys_umask"), C(1, "sys_chroot"), C(3, "sco_fcntl"), C(2, "svr4_ulimit") >> \o Us(15) \o
    << C(1, "sys_rmdir"), C(2, "abi_mkdir"), C(3, "svr4_getdents"), U, U,
       C(3, "svr4_sysfs"), S("svr4_getmsg"), S("svr4_putmsg"), C(3, "sys_poll"), U,
       C(6, "sw_security"), C(2, "sys_symlink"), C(2, "svr4_lstat"), C(3, "sys_readlink"),
       U, U, C(3, "abi_sigprocmask"), S("abi_sigsuspend"), U, C(3, "abi_sigaction"),
       C(2, "svr4_sigpending"), S("svr4_context"), U, U, C(2, "sco_statvfs"),
       C(2, "sco_fstatvfs") >> \o Us(4) \o
    << S("svr4_hrtsys"), U, U, U, C(2, "svr4_pathconf"), C(3, "sys_mincore"),
       C(6, "sco_mmap"), C(3, "sys_mprotect"), C(2, "sys_munmap"), C(2, "svr4_fpathconf"),
       S("abi_fork") >>

sco_syscall_table_high ==
    << C(1, "sys_fchdir"), C(3, "sys_readv"), C(3, "sys_writev"), C(3, "sco_xstat"),
       C(3, "sco_lxstat"), C(3, "sco_fxstat"), C(4, "svr4_xmknod"), U,
       C(2, "svr4_getrlimit"), C(2, "svr4_setrlimit") >> \o Us(10) \o
    << C(1, "socksys_syscall") >> \o Us(30) \o
    << C(2, "sys_gettimeofday"), C(2, "sys_settimeofday") >>

solaris_syscall_table_low ==
    << F("lcall7_syscall"), C(1, "sys_exit"), S("abi_fork"), C(3, "abi_read"),
       C(3, "sys_write"), C(3, "svr4_open"), C(1, "sys_close"), S("abi_wait"),
       C(2, "sys_creat"), C(2, "sys_link"), C(1, "sys_unlink"), S("abi_exec"),
       C(1, "sys_chdir"), C(0, "abi_time"), C(3, "svr4_mknod"), C(2, "sys_chmod"),
       C(3, "sys_chown"), C(1, "abi_brk"), C(2, "svr4_stat"), C(3, "sys_lseek"),
       S("abi_getpid"), U, C(1, "sys_umount"), C(1, "sys_setuid"), S("abi_getuid"),
       C(1, "sys_stime"), U, C(1, "sys_alarm"), C(2, "svr4_fstat"), C(0, "sys_pause"),
       C(2, "sys_utime"), U, U, C(2, "sys_access"), C(1, "sys_nice"), C(4, "svr4_statfs"),
       C(0, "sys_sync"), C(2, "abi_kill"), C(4, "svr4_fstatfs"), S("abi_procids"), U,
       C(1, "sys_dup"), S("abi_pipe"), C(1, "sys_times"), U, U, C(1, "sys_setgid"),
       S("abi_getgid"), F("abi_sigfunc"), S("svr4_msgsys"), C(3, "svr4_sysi86"),
       C(1, "sys_acct"), F("svr4_shmsys"), S("svr4_semsys"), S("svr4_ioctl"), U, U,
       C(1, "v7_utsname"), C(1, "sys_fsync"), S("abi_exec"), C(1, "sys_umask"),
       C(1, "sys_chroot"), C(3, "svr4_fcntl"), C(2, "svr4_ulimit") >> \o Us(15) \o
    << C(1, "sys_rmdir"), C(2, "abi_mkdir"), C(3, "svr4_getdents"), U, U,
       C(3, "svr4_sysfs"), S("svr4_getmsg"), S("svr4_putmsg"), C(3, "sys_poll"),
       C(2, "svr4_lstat"), C(2, "sys_symlink"), C(3, "sys_readlink"),
       C(2, "sys_setgroups"), C(2, "sys_getgroups"), C(2, "sys_fchmod"),
       C(3, "sys_fchown"), C(3, "abi_sigprocmask"), S("abi_sigsuspend"), U,
       C(3, "abi_sigaction"), C(2, "svr4_sigpending"), S("svr4_context"), U, U,
       C(2, "svr4_statvfs"), C(2, "svr4_fstatvfs") >> \o Us(4) \o
    << S("svr4_hrtsys"), U, U, U, C(2, "svr4_pathconf"), U, C(6, "svr4_mmap"),
       C(3, "sys_mprotect"), C(2, "sys_munmap"), C(2, "svr4_fpathconf"), S("abi_fork"),
       C(1, "sys_fchdir"), C(3, "sys_readv"), C(3, "sys_writev"), C(3, "svr4_xstat"),
       C(3, "svr4_lxstat"), C(3, "svr4_fxstat"), C(4, "svr4_xmknod"), U,
       C(2, "svr4_getrlimit"), C(2, "svr4_setrlimit"), U, U >>

solaris_syscall_table_high ==
    (IF CONFIG_ABI_XTI THEN << C(5, "svr4_getpmsg"), C(5, "svr4_putpmsg") >> ELSE Us(2)) \o
    << C(2, "sys_rename"), C(1, "abi_utsname"), C(1, "svr4_setegid"),
       C(1, "svr4_sysconfig"), U, C(3, "svr4_sysinfo"), C(1, "socksys_syscall"),
       C(1, "svr4_seteuid") >> \o Us(14) \o
    << C(2, "sys_gettimeofday"), C(2, "sys_getitimer"), C(3, "sys_setitimer") >> \o Us(14) \o
    << C(-4, "sys_pread64"), C(-4, "sys_pwrite64"), S("sol_llseek") >> \o Us(9) \o
    << C(4, "sol_acl") >> \o Us(13) \o
    << C(2, "sys_nanosleep"), U, U, C(2, "sys_setreuid"), C(2, "sys_setregid") >> \o Us(9) \o
    << C(3, "sol_getdents64"), C(7, "sol_mmap64"), C(2, "sol_stat64"), C(2, "sol_lstat64"),
       C(2, "sol_fstat64") >> \o Us(7) \o
    << C(3, "sol_open64") >> \o Us(4) \o
    << C(3, "solaris_socket"), C(1, "solaris_socketpair"), C(3, "solaris_bind"),
       C(2, "solaris_listen"), C(3, "solaris_accept"), C(3, "solaris_connect"),
       C(2, "solaris_shutdown"), C(4, "solaris_recv"), C(6, "solaris_recvfrom"),
       C(3, "solaris_recvmsg"), C(4, "solaris_send"), C(3, "solaris_sendmsg"),
       C(6, "solaris_sendto"), C(3, "solaris_getpeername"), C(3, "solaris_getsockname"),
       C(5, "solaris_getsockopt"), C(5, "solaris_setsockopt") >> \o Us(9)

uw7_syscall_table_low ==
    << F("lcall7_syscall"), C(1, "sys_exit"), S("abi_fork"), C(3, "abi_read"),
       C(3, "sys_write"), C(3, "svr4_open"), C(1, "sys_close"), S("abi_wait"),
       C(2, "sys_creat"), C(2, "sys_link"), C(1, "sys_unlink"), S("abi_exec"),
       C(1, "sys_chdir"), C(0, "abi_time"), C(3, "svr4_mknod"), C(2, "sys_chmod"),
       C(3, "sys_chown"), C(1, "abi_brk"), C(2, "svr4_stat"), C(3, "sys_lseek"),
       S("abi_getpid"), U, C(1, "sys_umount"), C(1, "sys_setuid"), S("abi_getuid"),
       C(1, "sys_stime"), U, C(1, "sys_alarm"), C(2, "svr4_fstat"), C(0, "sys_pause"),
       C(2, "sys_utime"), C(2, "uw7_stty"), C(2, "uw7_gtty"), C(2, "uw7_access"),
       C(1, "sys_nice"), C(4, "svr4_statfs"), C(0, "sys_sync"), C(2, "abi_kill"),
       C(4, "svr4_fstatfs"), S("abi_procids"), U, C(1, "sys_dup"), S("abi_pipe"),
       C(1, "sys_times"), U, U, C(1, "sys_setgid"), S("abi_getgid"), F("abi_sigfunc"),
       S("svr4_msgsys"), C(3, "svr4_sysi86"), C(1, "sys_acct"), F("svr4_shmsys"),
       S("svr4_semsys"), S("uw7_ioctl"), U, U, C(1, "v7_utsname"), C(1, "sys_fsync"),
       S("abi_exec"), C(1, "sys_umask"), C(1, "sys_chroot"), C(3, "svr4_fcntl"),
       C(2, "svr4_ulimit") >> \o Us(15) \o
    << C(1, "sys_rmdir"), C(2, "sys_mkdir"), C(3, "svr4_getdents"), U, U,
       C(3, "svr4_sysfs"), S("svr4_getmsg"), S("svr4_putmsg"), C(3, "sys_poll"),
       C(2, "svr4_lstat"), C(2, "sys_symlink"), C(3, "sys_readlink"),
       C(2, "sys_setgroups"), C(2, "sys_getgroups"), C(2, "sys_fchmod"),
       C(3, "sys_fchown"), C(3, "abi_sigprocmask"), S("abi_sigsuspend"),
       C(2, "uw7_sigaltstack"), C(3, "abi_sigaction"), C(2, "svr4_sigpending"),
       S("uw7_context"), U, U, C(2, "svr4_statvfs"), C(2, "svr4_fstatvfs"), U, U,
       C(4, "svr4_waitid"), U, S("svr4_hrtsys"), U, U, U, C(2, "svr4_pathconf"), U,
       C(6, "svr4_mmap"), C(3, "sys_mprotect"), C(2, "sys_munmap"), C(2, "svr4_fpathconf"),
       S("abi_fork"), C(1, "sys_fchdir"), C(3, "sys_readv"), C(3, "sys_writev"),
       C(3, "uw7_xstat"), C(3, "uw7_lxstat"), C(3, "uw7_fxstat"), C(4, "svr4_xmknod"), U,
       C(2, "svr4_getrlimit"), C(2, "svr4_setrlimit"), C(3, "sys_lchown"), U >>

uw7_syscall_table_high ==
    (IF CONFIG_ABI_XTI THEN << C(5, "svr4_getpmsg"), C(5, "svr4_putpmsg") >> ELSE Us(2)) \o
    << C(2, "sys_rename"), C(1, "abi_utsname"), C(1, "uw7_setegid"),
       C(1, "svr4_sysconfig"), U, C(3, "svr4_sysinfo"), C(1, "socksys_syscall"),
       C(1, "uw7_seteuid") >> \o Us(24) \o
    << C(1, "uw7_mldmode"), U, U, C(3, "sys_setitimer"), C(2, "sys_getitimer"),
       C(2, "sys_gettimeofday"), C(2, "sys_settimeofday") >> \o Us(16) \o
    << C(4, "uw7_pread"), C(4, "uw7_pwrite"), C(2, "sys_truncate"), C(2, "sys_ftruncate"),
       U, U, S("abi_fork"), S("abi_fork") >> \o Us(9) \o
    << C(1, "uw7_sleep") >> \o Us(9) \o
    << C(2, "uw7_fstatvfs64"), C(2, "uw7_statvfs64"), C(3, "uw7_ftruncate64"),
       C(3, "uw7_truncate64"), C(2, "uw7_getrlimit64"), C(2, "uw7_setrlimit64"),
       C(4, "uw7_lseek64"), C(7, "uw7_mmap64"), C(5, "uw7_pread64"), C(5, "uw7_pwrite64"),
       C(2, "uw7_creat64") >> \o Us(24)

wyse_nfscall_table ==
    Us(4)

wyse_tcpcall_table ==
    << C(5, "sys_select"), C(3, "wyse_socket"), C(3, "sys_connect"), C(3, "sys_accept"),
       C(4, "wyse_send"), C(4, "wyse_recv"), C(3, "sys_bind"), C(5, "wyse_setsockopt"),
       C(2, "sys_listen"), U, U, C(5, "wyse_getsockopt"), C(6, "wyse_recvfrom"),
       C(6, "wyse_sendto"), C(2, "sys_shutdown"), C(4, "sys_socketpair"), U,
       C(3, "sys_getpeername"), S("sys_getsockname"), C(1, "wyse_wait3") >>

wyse_syscall_table ==
    << F("lcall7_syscall"), C(1, "sys_exit"), S("abi_fork"), C(3, "abi_read"),
       C(3, "sys_write"), C(3, "svr4_open"), C(1, "sys_close"), S("abi_wait"),
       C(2, "sys_creat"), C(2, "sys_link"), C(1, "sys_unlink"), S("abi_exec"),
       C(1, "sys_chdir"), C(0, "abi_time"), C(3, "svr4_mknod"), C(2, "sys_chmod"),
       C(3, "sys_chown"), C(1, "abi_brk"), C(2, "svr4_stat"), C(3, "sys_lseek"),
       S("abi_getpid"), U, C(1, "sys_umount"), C(1, "sys_setuid"), S("abi_getuid"),
       C(1, "sys_stime"), C(4, "wyse_ptrace"), C(1, "sys_alarm"), C(2, "svr4_fstat"),
       C(0, "sys_pause"), C(2, "sys_utime"), U, U, C(2, "sys_access"), C(1, "sys_nice"),
       C(4, "svr4_statfs"), C(0, "sys_sync"), C(2, "abi_kill"), C(4, "svr4_fstatfs"),
       S("abi_procids"), U, C(1, "sys_dup"), S("abi_pipe"), C(1, "sys_times"), U, U,
       C(1, "sys_setgid"), S("abi_getgid"), F("abi_sigfunc"), S("svr4_msgsys"),
       C(3, "svr4_sysi86"), C(1, "sys_acct"), F("svr4_shmsys"), S("svr4_semsys"),
       S("svr4_ioctl"), U, U, C(1, "v7_utsname"), C(1, "sys_fsync"), S("abi_exec"),
       C(1, "sys_umask"), C(1, "sys_chroot"), C(3, "svr4_fcntl"), C(2, "svr4_ulimit") >> \o Us(15) \o
    << C(1, "sys_rmdir"), C(2, "abi_mkdir"), C(3, "svr4_getdents"), U, U,
       C(3, "svr4_sysfs"), S("svr4_getmsg"), S("svr4_putmsg"), C(3, "sys_poll") >> \o Us(40) \o
    << C(2, "svr4_lstat"), C(3, "sys_readlink"), C(2, "sys_symlink"), F("wyse_class_tcp"),
       F("wyse_class_nfs"), C(2, "wyse_gethostname"), C(2, "sys_sethostname"),
       C(2, "wyse_getdomainname"), C(2, "sys_setdomainname"), U, C(2, "sys_setreuid"),
       C(2, "sys_setregid") >>

ibcs_syscall_table == ibcs_syscall_table_low \o ibcs_syscall_table_high
isc_syscall_table == isc_syscall_table_low \o isc_syscall_table_high
sco_syscall_table == sco_syscall_table_low \o sco_syscall_table_high
solaris_syscall_table == solaris_syscall_table_low \o solaris_syscall_table_high
uw7_syscall_table == uw7_syscall_table_low \o uw7_syscall_table_high

-----------------------------------------------------------------------------
(* How many parameters the C definition of a handler takes; REGS when it     *)
(* takes the saved registers instead.                                        *)
REGS == -1

svr4_proto ==
    [ lcall7_syscall |-> REGS, svr4_fcntl |-> 3, svr4_hrtsys |-> REGS, svr4_ioctl |-> REGS,
      svr4_semsys |-> REGS, svr4_shmsys |-> REGS, svr4_msgsys |-> REGS, abi_brk |-> 1,
      abi_exec |-> REGS, abi_fork |-> REGS, abi_getpid |-> REGS, abi_getuid |-> REGS,
      abi_getgid |-> REGS, abi_mkdir |-> 2, svr4_mknod |-> 3, svr4_xmknod |-> 4,
      abi_kill |-> 2, abi_pipe |-> REGS, abi_procids |-> REGS, abi_read |-> 3,
      abi_time |-> 0, abi_wait |-> REGS, svr4_mmap |-> 6, svr4_open |-> 3,
      svr4_statfs |-> 4, svr4_fstatfs |-> 4, svr4_getdents |-> 3, abi_sigsuspend |-> REGS,
      abi_sigfunc |-> REGS, abi_sigaction |-> 3, abi_sigprocmask |-> 3,
      socksys_syscall |-> 1, svr4_getmsg |-> REGS, svr4_putmsg |-> REGS,
      svr4_getpmsg |-> REGS, svr4_putpmsg |-> REGS, svr4_waitid |-> 4, svr4_seteuid |-> 1,
      svr4_setegid |-> 1, svr4_fpathconf |-> 2, svr4_pathconf |-> 2, svr4_sigpending |-> 2,
      svr4_context |-> REGS, ibcs_sysconf |-> 1, svr4_sysfs |-> 3, svr4_sysinfo |-> 3,
      svr4_ulimit |-> 2, svr4_getrlimit |-> 2, svr4_setrlimit |-> 2, svr4_stat |-> 2,
      svr4_lstat |-> 2, svr4_fstat |-> 2, svr4_xstat |-> 3, svr4_fxstat |-> 3,
      svr4_lxstat |-> 3, svr4_sysconfig |-> 1, svr4_sysi86 |-> 3, abi_utsname |-> 1,
      v7_utsname |-> 1, svr4_statvfs |-> 2, svr4_fstatvfs |-> 2 ]

cxenix_proto ==
    [ xnx_locking |-> 3, xnx_creatsem |-> 2, xnx_opensem |-> 1, xnx_sigsem |-> 1,
      xnx_waitsem |-> 1, xnx_nbwaitsem |-> 1, xnx_rdchk |-> 1, xnx_ftime |-> 1,
      xnx_nap |-> 1, xnx_sdget |-> 4, xnx_sdfree |-> 1, xnx_sdenter |-> 2,
      xnx_sdleave |-> 1, xnx_sdgetv |-> 1, xnx_sdwaitv |-> 2, xnx_proctl |-> 3,
      xnx_execseg |-> 2, xnx_unexecseg |-> 1, xnx_eaccess |-> 2, xnx_paccess |-> 5,
      xnx_sigpending |-> 1, xnx_pathconf |-> 2, xnx_fpathconf |-> 2, xnx_sigaction |-> 3,
      xnx_utsname |-> 1, cxenix |-> REGS ]

sco_proto ==
    [ sco_ioctl |-> REGS, sco_lseek |-> 3, sco_fcntl |-> 3, sco_sysi86 |-> 3,
      sco_mmap |-> 6, sco_ptrace |-> 4, sw_security |-> 6, sco_xstat |-> 3,
      sco_lxstat |-> 3, sco_fxstat |-> 3, sco_statvfs |-> 2, sco_fstatvfs |-> 2 ]

solaris_proto ==
    [ sol_open64 |-> 3, sol_getdents64 |-> 3, sol_mmap64 |-> 7, solaris_socket |-> 3,
      solaris_socketpair |-> 1, solaris_bind |-> 3, solaris_setsockopt |-> 5,
      solaris_getsockopt |-> 5, solaris_connect |-> 3, solaris_accept |-> 3,
      solaris_listen |-> 2, solaris_shutdown |-> 2, solaris_recvfrom |-> 6,
      solaris_recv |-> 4, solaris_sendto |-> 6, solaris_send |-> 4,
      solaris_getpeername |-> 3, solaris_getsockname |-> 3, solaris_sendmsg |-> 3,
      solaris_recvmsg |-> 3, sol_llseek |-> REGS, sol_acl |-> 4, sol_stat64 |-> 2,
      sol_lstat64 |-> 2, sol_fstat64 |-> 2 ]

uw7_proto ==
    [ uw7_access |-> 2, uw7_context |-> REGS, uw7_sigaltstack |-> 2, uw7_sleep |-> 1,
      uw7_seteuid |-> 1, uw7_setegid |-> 1, uw7_pread |-> 4, uw7_pwrite |-> 4,
      uw7_stty |-> 2, uw7_gtty |-> 2, uw7_ioctl |-> REGS, uw7_truncate64 |-> 3,
      uw7_ftruncate64 |-> 3, uw7_statvfs64 |-> 2, uw7_fstatvfs64 |-> 2,
      uw7_getrlimit64 |-> 2, uw7_setrlimit64 |-> 2, uw7_lseek64 |-> 4, uw7_pread64 |-> 5,
      uw7_pwrite64 |-> 5, uw7_creat64 |-> 2, uw7_mldmode |-> 1, uw7_mmap64 |-> 7,
      uw7_xstat |-> 3, uw7_lxstat |-> 3, uw7_fxstat |-> 3 ]

wyse_proto ==
    [ wyse_ptrace |-> 4, wyse_gethostname |-> 2, wyse_getdomainname |-> 2,
      wyse_wait3 |-> 1, wyse_socket |-> 3, wyse_setsockopt |-> 5, wyse_getsockopt |-> 5,
      wyse_recvfrom |-> 6, wyse_recv |-> 4, wyse_sendto |-> 6, wyse_send |-> 4 ]

linux_proto ==
    [ sys_accept |-> 3, sys_access |-> 2, sys_acct |-> 1, sys_alarm |-> 1, sys_bind |-> 3,
      sys_chdir |-> 1, sys_chmod |-> 2, sys_chown |-> 3, sys_chroot |-> 1, sys_close |-> 1,
      sys_connect |-> 3, sys_creat |-> 2, sys_dup |-> 1, sys_exit |-> 1, sys_fchdir |-> 1,
      sys_fchmod |-> 2, sys_fchown |-> 3, sys_fsync |-> 1, sys_ftruncate |-> 2,
      sys_getgroups |-> 2, sys_getgroups16 |-> 2, sys_getitimer |-> 2,
      sys_getpeername |-> 3, sys_getsockname |-> 3, sys_gettimeofday |-> 2,
      sys_lchown |-> 3, sys_link |-> 2, sys_listen |-> 2, sys_lseek |-> 3,
      sys_mincore |-> 3, sys_mkdir |-> 2, sys_mprotect |-> 3, sys_munmap |-> 2,
      sys_nanosleep |-> 2, sys_nice |-> 1, sys_pause |-> 0, sys_poll |-> 3,
      sys_pread64 |-> 5, sys_pwrite64 |-> 5, sys_readlink |-> 3, sys_readv |-> 3,
      sys_rename |-> 2, sys_rmdir |-> 1, sys_select |-> 5, sys_setdomainname |-> 2,
      sys_setgid |-> 1, sys_setgroups |-> 2, sys_setgroups16 |-> 2, sys_sethostname |-> 2,
      sys_setitimer |-> 3, sys_setpgid |-> 2, sys_setregid |-> 2, sys_setreuid |-> 2,
      sys_setsid |-> 0, sys_settimeofday |-> 2, sys_setuid |-> 1, sys_shutdown |-> 2,
      sys_socketpair |-> 4, sys_stime |-> 1, sys_symlink |-> 2, sys_sync |-> 0,
      sys_times |-> 1, sys_truncate |-> 2, sys_umask |-> 1, sys_umount |-> 1,
      sys_unlink |-> 1, sys_utime |-> 2, sys_waitpid |-> 3, sys_write |-> 3,
      sys_writev |-> 3 ]

(* The handlers that are static functions of the sysent.c files.             *)
local_proto == [ isc_setostype |-> 1, isc_sysisc |-> REGS, wyse_class_nfs |-> REGS,
                 wyse_class_tcp |-> REGS ]

Prototypes == {svr4_proto, cxenix_proto, sco_proto, solaris_proto, uw7_proto, wyse_proto,
               local_proto, linux_proto}
Prototype(h) == LET f == CHOOSE g \in Prototypes : h \in DOMAIN g IN f[h]
=============================================================================
